---- MODULE Spec2Model ----
(***************************************************************************)
(* Model of the clipboard redirection core of libs/clipboard/src/lib.rs:   *)
(* the registry VEC_MSG_CHANNEL (an RwLock<Vec<MsgChannel>>), the id       *)
(* allocator CLIENT_CONN_ID_COUNTER (a Mutex<i32>) and the dispatcher      *)
(* send_data / send_data_to_channel / send_data_to_all.                    *)
(*                                                                         *)
(* Threads call the public functions concurrently.  A step that is taken   *)
(* while a lock is held is a separate action, so that the interleavings    *)
(* the locks allow (and the ones they forbid) are explored.                *)
(***************************************************************************)
EXTENDS Integers, Sequences, FiniteSets, TLC

\* ------------------------------------------------------------------ bounds
NumThreads == 2
MaxEntries == 3
MaxQueue == 2
MaxConnArg == 2
MaxCalls == 3
MaxMsgs == 3
NumHolders == 2
MaxDisplays == 2
MaxSeed == 2

\* ------------------------------------------------------- program constants
I32Max == 2147483647
I32Min == -I32Max - 1

Threads == 1..NumThreads
\* peer ids passed by callers; "" is the peer_id of server-keyed entries
Peers == {"", "a", "b"}
\* conn ids passed by callers (0 is the broadcast sentinel of send_data)
ConnArgs == 0..MaxConnArg
\* ClipboardFile values that travel through the queues (by variant tag)
Msgs == {"MonitorReady", "FileContentsRequest"}
\* counter values a process can have when the modelled calls start:
\* after 0, 2^31 - 2 and 2^32 - 2 earlier calls (release build)
StartCounters == {0, I32Max - 1, -2}

VARIABLES
    target_os_windows,      \* cfg(target_os = "windows"), fixed by the build
    VEC_MSG_CHANNEL,        \* the registry: sequence of MsgChannel
    CLIENT_CONN_ID_COUNTER, \* the i32 behind the Mutex
    channels,               \* every unbounded_channel() created so far
    rwlock,                 \* the RwLock around VEC_MSG_CHANNEL
    mutex,                  \* the Mutex around CLIENT_CONN_ID_COUNTER
    pc,                     \* where each thread is inside its current call
    loc,                    \* the locals of each thread's current call
    ret,                    \* what the most recently completed call returned
    origin,                 \* history: which function pushed each entry
    clientRets,             \* history: results of get_rx_cliprdr_client per peer
    idLog,                  \* history: values returned by get_conn_id, in order
    startCounter,           \* history: the counter when the modelled calls started
    calls,                  \* history: how many calls have been started
    held,                   \* per queue: does any caller still hold its handle
    session,                \* the consumer of one queue: the messages it processed
    rx,                     \* the holders draining one shared queue handle
    privacy,                \* the virtual-display PrivacyModeImpl and its system
    cursor                  \* macOS: LATEST_SEED, the cursor seed, get_cursor

vars == <<target_os_windows, VEC_MSG_CHANNEL, CLIENT_CONN_ID_COUNTER, channels,
          rwlock, mutex, pc, loc, ret, origin, clientRets, idLog, startCounter,
          calls, held, session, rx, privacy, cursor>>

\* --------------------------------------------------------------- helpers
NoLoc == [peer |-> "", id |-> 0, idx |-> 0, msg |-> "", sent |-> <<>>,
          cont |-> "idle"]
NoRet == [op |-> "none", peer |-> "", conn |-> 0, ch |-> 0, msg |-> "",
          res |-> "none", out |-> "none", created |-> FALSE, n |-> 0,
          sent |-> <<>>]

\* MsgChannel { peer_id, conn_id, sender, receiver }: sender and receiver are
\* the two ends of channel number ch
MsgChannel(peer_id, conn_id, ch) ==
    [peer_id |-> peer_id, conn_id |-> conn_id, ch |-> ch]

\* a push that puts the new entry in front of the others
VecPushFront(vec, entry) == <<entry>> \o vec

\* lock.push(msg_channel)
VecPush(vec, entry) == Append(vec, entry)

\* unbounded_channel(): a new, open, empty queue
unbounded_channel == [buf |-> <<>>, closed |-> FALSE]

\* a find that takes the last match instead of the first
FindPeerLast(vec, peer_id) ==
    LET hits == {i \in 1..Len(vec) : vec[i].peer_id = peer_id}
    IN IF hits = {} THEN 0 ELSE CHOOSE i \in hits : \A j \in hits : i >= j

\* a lookup that also takes an entry registered without a peer_id
FindPeerOrEmpty(vec, peer_id) ==
    LET S == {i \in 1..Len(vec) : vec[i].peer_id \in {peer_id, ""}}
    IN IF S = {} THEN 0 ELSE CHOOSE i \in S : \A j \in S : i <= j

\* a lookup that takes the first entry without comparing its peer_id
FindPeerFirstEntry(vec, peer_id) == IF vec = <<>> THEN 0 ELSE 1

\* lock.iter().find(|x| x.peer_id == peer_id): index of the first match, 0 for None
FindPeer(vec, peer_id) ==
    LET hits == {i \in 1..Len(vec) : vec[i].peer_id = peer_id}
    IN IF hits = {} THEN 0 ELSE CHOOSE i \in hits : \A j \in hits : i <= j

\* a lookup that returns the latest entry carrying the conn_id
FindConnLast(vec, conn_id) ==
    LET S == {i \in 1..Len(vec) : vec[i].conn_id = conn_id}
    IN IF S = {} THEN 0 ELSE CHOOSE i \in S : \A j \in S : j <= i

\* lock.iter().find(|x| x.conn_id == conn_id): index of the first match, 0 for None
FindConn(vec, conn_id) ==
    LET hits == {i \in 1..Len(vec) : vec[i].conn_id = conn_id}
    IN IF hits = {} THEN 0 ELSE CHOOSE i \in hits : \A j \in hits : i <= j

\* a write lock that excludes nobody (the guard is not held across the match)
CanWriteUnguarded(lock) == TRUE

\* VEC_MSG_CHANNEL.write(): exclusive, waits for readers and writers
CanWrite(lock) == lock.writer = 0 /\ lock.readers = {}

\* VEC_MSG_CHANNEL.read(): shared, waits for a writer
CanRead(lock) == lock.writer = 0

\* a counter lock that excludes nobody
CanLockUnguarded(m) == TRUE

\* CLIENT_CONN_ID_COUNTER.lock(): exclusive
CanLock(m) == m.holder = 0

\* an increment that skips a value
IncrOutcomesByTwo(x) == {[val |-> x + 2, panic |-> FALSE]}

\* *lock += 1 on an i32: below i32::MAX the sum; at i32::MAX the build
\* decides (wrapping in release, panic "attempt to add with overflow" in debug)
IncrOutcomes(x) ==
    IF x < I32Max THEN {[panic |-> FALSE, val |-> x + 1]}
    ELSE {[panic |-> FALSE, val |-> I32Min], [panic |-> TRUE, val |-> x]}

\* a queue that hands out the newest message first
SenderSendFront(q, data) ==
    IF q.closed THEN [q |-> q, res |-> "ErrSend"]
    ELSE [q |-> [q EXCEPT !.buf = <<data>> \o @], res |-> "Ok"]

\* sender.send(data) of tokio's unbounded channel: appends unless the
\* receiving half was closed; never waits
SenderSend(q, data) ==
    IF q.closed THEN [q |-> q, res |-> "ErrSend"]
    ELSE [q |-> [q EXCEPT !.buf = Append(@, data)], res |-> "Ok"]

\* ---------------------------------------------------------- ClipboardFile
\* sample values of the field types: i32, String, Vec<u8>, Vec<(i32, String)>
I32s == {0, 7}
Strings == {"", "x"}
ByteVecs == {<<>>, <<1, 2, 3>>}
FormatLists == {<<>>, <<<<7, "x">>>>, <<<<0, "x">>, <<7, "">>>>,
                <<<<7, "">>, <<0, "x">>>>}

\* enum ClipboardFile: the eight variants with their fields; t is the variant
ClipboardFile ==
    [t : {"NotifyCallback"}, type : Strings, title : Strings, text : Strings]
    \cup [t : {"MonitorReady"}]
    \cup [t : {"FormatList"}, format_list : FormatLists]
    \cup [t : {"FormatListResponse"}, msg_flags : I32s]
    \cup [t : {"FormatDataRequest"}, requested_format_id : I32s]
    \cup [t : {"FormatDataResponse"}, msg_flags : I32s, format_data : ByteVecs]
    \cup [t : {"FileContentsRequest"}, stream_id : I32s, list_index : I32s,
          dw_flags : {0}, n_position_low : {7}, n_position_high : {0},
          cb_requested : {7}, have_clip_data_id : BOOLEAN, clip_data_id : I32s]
    \cup [t : {"FileContentsResponse"}, msg_flags : I32s, stream_id : I32s,
          requested_data : ByteVecs]

\* a stop predicate that leaves out FormatDataRequest
is_stopping_allowed_beginning_only(m) == m.t \in {"MonitorReady", "FormatList"}

\* a stop predicate that also lets FileContentsRequest through
is_stopping_allowed_with_file_request(m) ==
    m.t \in {"MonitorReady", "FormatList", "FormatDataRequest",
             "FileContentsRequest"}

\* matches!(self, MonitorReady | FormatList { .. } | FormatDataRequest { .. })
is_stopping_allowed(m) ==
    m.t \in {"MonitorReady", "FormatList", "FormatDataRequest"}

\* a beginning predicate that also lets FormatDataRequest through
is_beginning_message_with_request(m) ==
    m.t \in {"MonitorReady", "FormatList", "FormatDataRequest"}

\* matches!(self, MonitorReady | FormatList { .. })
is_beginning_message(m) == m.t \in {"MonitorReady", "FormatList"}

\* a Vec written back to front
SerializeVecReversed(v) == [i \in 1..Len(v) |-> v[Len(v) + 1 - i]]

\* serde writes a Vec as an array of its elements in order (a tuple
\* (i32, String) as a two-element array)
SerializeVec(v) == [i \in 1..Len(v) |-> v[i]]

\* the value serde finds under a key of an object, "missing" when absent
Lookup(obj, key) ==
    LET hits == {i \in 1..Len(obj) : obj[i][1] = key}
    IN IF hits = {} THEN "missing"
       ELSE obj[CHOOSE i \in hits : \A j \in hits : i <= j][2]

\* #[derive(Serialize)] #[serde(tag = "t", content = "c")]: an object with
\* the variant name under "t" and, unless the variant is a unit, the fields
\* by name under "c" (r#type is the field name "type")
Serialize(m) ==
    LET c == CASE m.t = "NotifyCallback" ->
                      << <<"type", m.type>>, <<"title", m.title>>,
                         <<"text", m.text>> >>
               [] m.t = "FormatList" ->
                      << <<"format_list", SerializeVec(m.format_list)>> >>
               [] m.t = "FormatListResponse" ->
                      << <<"msg_flags", m.msg_flags>> >>
               [] m.t = "FormatDataRequest" ->
                      << <<"requested_format_id", m.requested_format_id>> >>
               [] m.t = "FormatDataResponse" ->
                      << <<"msg_flags", m.msg_flags>>,
                         <<"format_data", SerializeVec(m.format_data)>> >>
               [] m.t = "FileContentsRequest" ->
                      << <<"stream_id", m.stream_id>>,
                         <<"list_index", m.list_index>>,
                         <<"dw_flags", m.dw_flags>>,
                         <<"n_position_low", m.n_position_low>>,
                         <<"n_position_high", m.n_position_high>>,
                         <<"cb_requested", m.cb_requested>>,
                         <<"have_clip_data_id", m.have_clip_data_id>>,
                         <<"clip_data_id", m.clip_data_id>> >>
               [] m.t = "FileContentsResponse" ->
                      << <<"msg_flags", m.msg_flags>>,
                         <<"stream_id", m.stream_id>>,
                         <<"requested_data", SerializeVec(m.requested_data)>> >>
               [] OTHER -> <<>>
    IN IF m.t = "MonitorReady" THEN << <<"t", m.t>> >>
       ELSE << <<"t", m.t>>, <<"c", c>> >>

\* #[derive(Deserialize)]: the variant is chosen by the string under "t", its
\* fields are read by name from the object under "c"; an unknown variant
\* name is an error
Deserialize(w) ==
    LET t == Lookup(w, "t")
        c == Lookup(w, "c")
    IN CASE t = "NotifyCallback" ->
                [t |-> t, type |-> Lookup(c, "type"),
                 title |-> Lookup(c, "title"), text |-> Lookup(c, "text")]
         [] t = "MonitorReady" -> [t |-> t]
         [] t = "FormatList" -> [t |-> t, format_list |-> Lookup(c, "format_list")]
         [] t = "FormatListResponse" -> [t |-> t, msg_flags |-> Lookup(c, "msg_flags")]
         [] t = "FormatDataRequest" ->
                [t |-> t, requested_format_id |-> Lookup(c, "requested_format_id")]
         [] t = "FormatDataResponse" ->
                [t |-> t, msg_flags |-> Lookup(c, "msg_flags"),
                 format_data |-> Lookup(c, "format_data")]
         [] t = "FileContentsRequest" ->
                [t |-> t, stream_id |-> Lookup(c, "stream_id"),
                 list_index |-> Lookup(c, "list_index"),
                 dw_flags |-> Lookup(c, "dw_flags"),
                 n_position_low |-> Lookup(c, "n_position_low"),
                 n_position_high |-> Lookup(c, "n_position_high"),
                 cb_requested |-> Lookup(c, "cb_requested"),
                 have_clip_data_id |-> Lookup(c, "have_clip_data_id"),
                 clip_data_id |-> Lookup(c, "clip_data_id")]
         [] t = "FileContentsResponse" ->
                [t |-> t, msg_flags |-> Lookup(c, "msg_flags"),
                 stream_id |-> Lookup(c, "stream_id"),
                 requested_data |-> Lookup(c, "requested_data")]
         [] OTHER -> [t |-> "Err"]

\* the consumer of one session before it has seen a message
NoMsg == [t |-> "none"]
NoSession == [phase |-> "idle", n |-> 0, sent |-> NoMsg, wire |-> <<>>,
              last |-> NoMsg, started |-> FALSE, violation |-> FALSE,
              is_beginning |-> FALSE, stop_allowed |-> FALSE]

\* ------------------------------------------------- holders of one handle
Holders == 1..NumHolders

\* no holder is draining
NoRx == [lock |-> [ch \in 1..MaxEntries |-> 0],
         hpc |-> [h \in Holders |-> "idle"],
         hch |-> [h \in Holders |-> 0],
         peek |-> [h \in Holders |-> ""],
         got |-> [h \in Holders |-> <<>>]]

\* a handle whose mutex lets everybody in
CanLockRxUnguarded(l) == TRUE

\* Arc<TokioMutex<UnboundedReceiver<ClipboardFile>>>: lock().await goes on
\* when no other holder has the mutex of the handle
CanLockRx(l) == l = 0

\* ------------------------------------------------------- PrivacyModeImpl
INVALID_PRIVACY_MODE_CONN_ID == 0

\* what the last privacy-mode call did and returned
NoPrivacyRet == [op |-> "none", conn |-> 0, res |-> "none", err |-> "none",
                 armed |-> FALSE, guard |-> "none", guard_conn |-> 0,
                 plug_out |-> FALSE, pre_conn |-> 0, pre_reg |-> "",
                 plugged_in |-> {}]

\* PrivacyModeImpl::new, the Config option reg_recovery and the displays of
\* the system: how many physical ones are active, which virtual ones are
\* plugged in, and whether the physical ones are switched off
NoPrivacy == [conn_id |-> INVALID_PRIVACY_MODE_CONN_ID,
              displays |-> <<>>,
              virtual_displays |-> <<>>,
              virtual_displays_added |-> <<>>,
              reg_recovery |-> "",
              hooked |-> FALSE,
              physical |-> 1,
              plugged |-> {},
              disabled |-> FALSE,
              connectivity |-> "original",
              ret |-> NoPrivacyRet]

\* static mut LATEST_SEED: i32 = 0, the cursor seed of the window server,
\* and the call of get_cursor in progress: where it is, the seed it read and
\* whether it is the first call that started after a reset_input_cache
NoCursorRet == [op |-> "none", res |-> "none", seed |-> 0, latest |-> 0,
                after_reset |-> FALSE]

NoCursor == [LATEST_SEED |-> 0, seed |-> 0, pc |-> "idle", read |-> 0,
             latest |-> 0, after_reset |-> FALSE, reset_done |-> FALSE,
             ret |-> NoCursorRet]

\* the conn_ids the callers pass
PrivacyConns == {INVALID_PRIVACY_MODE_CONN_ID, 1, 2}

\* the steps of turn_on_privacy that depend on the system, in program
\* order; "none": all of them succeed
FailSteps == <<"is_virtual_display_supported", "plug_in_peer_request",
               "set_displays_again", "virtual_displays",
               "read_reg_connectivity_1",
               "set_primary_display", "disable_physical_displays",
               "commit_change_display", "read_reg_connectivity_2",
               "to_string", "none">>

\* what the system does during a turn-off or a registry restore: the
\* outcomes of the input unhook, of plugging monitors out and of writing the
\* registry
EnvOff == [unhook_ok : BOOLEAN, plug_out_ok : BOOLEAN,
           reg_restore_ok : BOOLEAN]

\* the position of a fallible step in program order
StepNo(step) == CHOOSE k \in 1..Len(FailSteps) : FailSteps[k] = step

\* what the system does during a turn-on: the first step that goes wrong
\* (a step that is not reached cannot), whether the registry connectivity
\* differs afterwards (read only when every step before it worked), and the
\* outcomes of the turn-off the guard runs (only after a failed step)
Env ==
    [fail : {"is_virtual_display_supported"}, diff : {FALSE},
     unhook_ok : {TRUE}, plug_out_ok : {TRUE}, reg_restore_ok : {TRUE}]
    \cup
    [fail : {FailSteps[k] : k \in StepNo("plug_in_peer_request")
                                      ..StepNo("read_reg_connectivity_2")},
     diff : {FALSE},
     unhook_ok : BOOLEAN, plug_out_ok : BOOLEAN, reg_restore_ok : BOOLEAN]
    \cup
    [fail : {"to_string"}, diff : {TRUE},
     unhook_ok : BOOLEAN, plug_out_ok : BOOLEAN, reg_restore_ok : BOOLEAN]
    \cup
    [fail : {"none"}, diff : BOOLEAN,
     unhook_ok : {TRUE}, plug_out_ok : {TRUE}, reg_restore_ok : {TRUE}]

\* the elements of a set of numbers in increasing order
SortedSeq(S) ==
    CHOOSE q \in [1..Cardinality(S) -> S] :
        \A i, j \in 1..Cardinality(S) : i < j => q[i] < q[j]

\* PrivacyMode::check_on_conn_id: Ok(true) when privacy mode is already on
\* for conn_id, an error when it is on for another connection, else Ok(false)
check_on_conn_id(pre_conn_id, conn_id) ==
    IF pre_conn_id = conn_id THEN "True"
    ELSE IF pre_conn_id # INVALID_PRIVACY_MODE_CONN_ID THEN "Err"
    ELSE "False"

\* PrivacyMode::check_off_conn_id: an error when privacy mode is on for
\* another connection than the valid conn_id given
check_off_conn_id(pre_conn_id, conn_id) ==
    IF /\ pre_conn_id # INVALID_PRIVACY_MODE_CONN_ID
       /\ conn_id # INVALID_PRIVACY_MODE_CONN_ID
       /\ pre_conn_id # conn_id
    THEN "Err" ELSE "Ok"

\* set_displays: both lists are cleared and filled again from the active
\* displays the system enumerates, virtual ones recognised by device string
set_displays(p, seen) ==
    [p EXCEPT !.displays = IF seen = "no_physical" THEN <<>>
                           ELSE [i \in 1..p.physical |-> <<"physical", i>>],
              !.virtual_displays =
                  IF seen = "no_virtual" THEN <<>>
                  ELSE LET q == SortedSeq(p.plugged) IN
                       [i \in 1..Len(q) |-> <<"virtual", q[i]>>]]

\* a restore that forgets the added monitors only when the plug-out worked
restore_plug_out_monitor_keeping(p, e) ==
    IF e.plug_out_ok
    THEN [p EXCEPT !.plugged = @ \ {p.virtual_displays_added[k] :
                                        k \in 1..Len(p.virtual_displays_added)},
                   !.virtual_displays_added = <<>>]
    ELSE p

\* restore_plug_out_monitor: let _ = plug_out_monitor_indices(added, ..);
\* self.virtual_displays_added.clear()
restore_plug_out_monitor(p, e) ==
    [p EXCEPT !.plugged =
                  IF e.plug_out_ok
                  THEN @ \ {p.virtual_displays_added[k] :
                                k \in 1..Len(p.virtual_displays_added)}
                  ELSE @,
              !.virtual_displays_added = <<>>]

\* restore: the saved settings of both lists are written back and committed
\* (failures are ignored), the added monitors are plugged out, the lists are
\* cleared
restore(p, e) ==
    LET p1 == restore_plug_out_monitor([p EXCEPT !.disabled = FALSE], e)
    IN [p1 EXCEPT !.displays = <<>>, !.virtual_displays = <<>>]

\* reset_config_reg_connectivity: Config::set_option("reg_recovery", "")
reset_config_reg_connectivity(p) == [p EXCEPT !.reg_recovery = ""]

\* a restore that gives up, leaving the option, when the value does not parse
restore_reg_connectivity_parsed_only(p, plug_out_monitors, e) ==
    IF p.reg_recovery # "json" THEN p
    ELSE reset_config_reg_connectivity(
             [p EXCEPT !.plugged = IF plug_out_monitors /\ e.plug_out_ok
                                   THEN {} ELSE @,
                       !.connectivity = IF e.reg_restore_ok
                                        THEN "original" ELSE @])

\* restore_reg_connectivity(plug_out_monitors): nothing when the option is
\* empty; else plug out every virtual monitor if asked to, restore the
\* registry if the value parses (an error is logged), reset the option
restore_reg_connectivity(p, plug_out_monitors, e) ==
    IF p.reg_recovery = "" THEN p
    ELSE reset_config_reg_connectivity(
             [p EXCEPT !.plugged = IF plug_out_monitors /\ e.plug_out_ok
                                   THEN {} ELSE @,
                       !.connectivity =
                           IF p.reg_recovery = "json" /\ e.reg_restore_ok
                           THEN "original" ELSE @])

\* a turn-off that restores the displays before it looks at the input hook
turn_off_privacy_restore_first(p, conn_id, e) ==
    IF check_off_conn_id(p.conn_id, conn_id) = "Err"
    THEN [p |-> p, res |-> "Err", err |-> "check_off_conn_id"]
    ELSE LET p1 == restore(p, e) IN
         IF ~e.unhook_ok
         THEN [p |-> p1, res |-> "Err", err |-> "unhook"]
         ELSE [p |-> [restore_reg_connectivity(p1, FALSE, e) EXCEPT
                          !.hooked = FALSE,
                          !.conn_id = INVALID_PRIVACY_MODE_CONN_ID],
               res |-> "Ok", err |-> "none"]

\* turn_off_privacy(conn_id, state): check_off_conn_id(conn_id)?; unhook()?;
\* restore(); restore_reg_connectivity(false); conn_id = INVALID if it was
\* not (state only decides whether the peer is notified).  The value is the
\* PrivacyModeImpl and system afterwards and the Result.
turn_off_privacy(p, conn_id, e) ==
    IF check_off_conn_id(p.conn_id, conn_id) = "Err"
    THEN [p |-> p, res |-> "Err", err |-> "check_off_conn_id"]
    ELSE IF ~e.unhook_ok
    THEN [p |-> p, res |-> "Err", err |-> "unhook"]
    ELSE LET p1 == restore([p EXCEPT !.hooked = FALSE], e)
             p2 == restore_reg_connectivity(p1, FALSE, e)
         IN [p |-> [p2 EXCEPT !.conn_id = INVALID_PRIVACY_MODE_CONN_ID],
             res |-> "Ok", err |-> "none"]

\* a guard that is forgotten instead of dropped
TurnOnGuard_forget(p, succeeded, e) ==
    [p |-> p, guard |-> "none", conn |-> INVALID_PRIVACY_MODE_CONN_ID]

\* impl Drop for TurnOnGuard: if !self.succeeded {
\*     self.privacy_mode.turn_off_privacy(INVALID_PRIVACY_MODE_CONN_ID, None).ok() }
TurnOnGuard_drop(p, succeeded, e) ==
    IF ~succeeded
    THEN LET r == turn_off_privacy(p, INVALID_PRIVACY_MODE_CONN_ID, e)
         IN [p |-> r.p, guard |-> r.res,
             conn |-> INVALID_PRIVACY_MODE_CONN_ID]
    ELSE [p |-> p, guard |-> "none", conn |-> INVALID_PRIVACY_MODE_CONN_ID]

\* an ensure_virtual_display that remembers the plugged-in monitor before it
\* looks for physical displays
ensure_virtual_display_record_first(p, e) ==
    IF p.virtual_displays # <<>>
    THEN [p |-> p, res |-> "Ok", err |-> "none", plugged_in |-> {}]
    ELSE LET free == (1..(Cardinality(p.plugged) + 1)) \ p.plugged IN
         IF e.fail = "plug_in_peer_request"
         THEN [p |-> p, res |-> "Err", err |-> "plug_in_peer_request",
               plugged_in |-> {}]
         ELSE LET idx == CHOOSE i \in free : \A j \in free : i <= j
                  p1 == set_displays(
                            [p EXCEPT !.plugged = @ \cup {idx},
                                      !.virtual_displays_added =
                                          Append(@, idx)],
                            IF e.fail = "set_displays_again"
                            THEN "no_physical"
                            ELSE IF e.fail = "virtual_displays"
                            THEN "no_virtual" ELSE "all")
              IN IF p1.displays = <<>>
                 THEN IF e.plug_out_ok
                      THEN [p |-> [p1 EXCEPT !.plugged = @ \ {idx}],
                            res |-> "Err", err |-> "NO_PHYSICAL_DISPLAYS",
                            plugged_in |-> {idx}]
                      ELSE [p |-> p1, res |-> "Err",
                            err |-> "plug_out_monitor_indices",
                            plugged_in |-> {idx}]
                 ELSE [p |-> p1, res |-> "Ok", err |-> "none",
                       plugged_in |-> {idx}]

\* ensure_virtual_display: when no virtual display is known, plug one in
\* (`?`) and enumerate again; without physical displays plug it out (`?`)
\* and bail!(NO_PHYSICAL_DISPLAYS), else remember the plugged-in monitor.
\* The value is the PrivacyModeImpl and system afterwards, the Result and
\* the monitors plug_in_peer_request returned.
ensure_virtual_display(p, e) ==
    IF p.virtual_displays # <<>>
    THEN [p |-> p, res |-> "Ok", err |-> "none", plugged_in |-> {}]
    ELSE LET free == (1..(Cardinality(p.plugged) + 1)) \ p.plugged IN
         IF e.fail = "plug_in_peer_request"
         THEN [p |-> p, res |-> "Err", err |-> "plug_in_peer_request",
               plugged_in |-> {}]
         ELSE LET idx == CHOOSE i \in free : \A j \in free : i <= j
                  p1 == set_displays([p EXCEPT !.plugged = @ \cup {idx}],
                                     IF e.fail = "set_displays_again"
                                     THEN "no_physical"
                                     ELSE IF e.fail = "virtual_displays"
                                     THEN "no_virtual" ELSE "all")
              IN IF p1.displays = <<>>
                 THEN IF e.plug_out_ok
                      THEN [p |-> [p1 EXCEPT !.plugged = @ \ {idx}],
                            res |-> "Err", err |-> "NO_PHYSICAL_DISPLAYS",
                            plugged_in |-> {idx}]
                      ELSE [p |-> p1, res |-> "Err",
                            err |-> "plug_out_monitor_indices",
                            plugged_in |-> {idx}]
                 ELSE [p |-> [p1 EXCEPT !.virtual_displays_added =
                                            Append(@, idx)],
                       res |-> "Ok", err |-> "none", plugged_in |-> {idx}]

\* turn_on_privacy fails after the guard was armed: the guard is dropped
\* with succeeded = false on the way out
TurnOnFailed(p, err, e) ==
    LET d == TurnOnGuard_drop(p, FALSE, e)
    IN [p |-> d.p, res |-> "Err", err |-> err, armed |-> TRUE,
        guard |-> d.guard, guard_conn |-> d.conn]

\* turn_on_privacy(conn_id).  The value is the PrivacyModeImpl and system
\* afterwards, the Result, whether the guard was armed, and what its
\* turn_off_privacy was called with and returned.
turn_on_privacy(p, conn_id, e) ==
    LET c == check_on_conn_id(p.conn_id, conn_id)
        p1 == set_displays(p, "all")
        ev == ensure_virtual_display(p1, e)
        \* serde_json::to_string runs only on a Some(reg_recovery)
        fail == IF \/ e.fail = "to_string" /\ ~e.diff
                   \/ StepNo(e.fail) < StepNo("read_reg_connectivity_1")
                THEN "none" ELSE e.fail
        \* the settings written so far take effect with the commit
        p2 == IF StepNo(fail) > StepNo("commit_change_display")
              THEN [ev.p EXCEPT !.disabled = TRUE, !.connectivity = "changed"]
              ELSE ev.p
    IN IF e.fail = "is_virtual_display_supported"
       THEN [p |-> p, res |-> "Err", armed |-> FALSE, guard |-> "none",
             guard_conn |-> INVALID_PRIVACY_MODE_CONN_ID,
             err |-> "idd_not_support_under_win10_2004_tip"]
       ELSE IF c = "Err"
       THEN [p |-> p, res |-> "Err", armed |-> FALSE, guard |-> "none",
             guard_conn |-> INVALID_PRIVACY_MODE_CONN_ID,
             err |-> "check_on_conn_id"]
       ELSE IF c = "True"
       THEN [p |-> p, res |-> "Ok", armed |-> FALSE, guard |-> "none",
             guard_conn |-> INVALID_PRIVACY_MODE_CONN_ID, err |-> "none"]
       ELSE IF p1.displays = <<>>
       THEN [p |-> p1, res |-> "Err", armed |-> FALSE, guard |-> "none",
             guard_conn |-> INVALID_PRIVACY_MODE_CONN_ID,
             err |-> "NO_PHYSICAL_DISPLAYS"]
       ELSE IF ev.res = "Err" THEN TurnOnFailed(ev.p, ev.err, e)
       ELSE IF ev.p.virtual_displays = <<>>
       THEN TurnOnFailed(ev.p, "No virtual displays.", e)
       ELSE IF fail # "none" THEN TurnOnFailed(p2, fail, e)
       ELSE LET p3 == [p2 EXCEPT
                           !.reg_recovery = IF e.diff THEN "json" ELSE "",
                           !.conn_id = conn_id,
                           !.hooked = TRUE]
                d == TurnOnGuard_drop(p3, TRUE, e)
            IN [p |-> d.p, res |-> "Ok", armed |-> TRUE, guard |-> d.guard,
                guard_conn |-> d.conn, err |-> "none"]

\* what a call found before it ran
PrivacyRet(p, op, conn_id) ==
    [NoPrivacyRet EXCEPT
         !.op = op, !.conn = conn_id,
         !.pre_conn = p.conn_id, !.pre_reg = p.reg_recovery]

\* ------------------------------------------------------------------- Init
Init ==
    /\ target_os_windows \in BOOLEAN
    /\ VEC_MSG_CHANNEL = <<>>
    /\ CLIENT_CONN_ID_COUNTER = 0
    /\ channels = <<>>
    /\ rwlock = [writer |-> 0, readers |-> {}]
    /\ mutex = [holder |-> 0, poisoned |-> FALSE]
    /\ pc = [t \in Threads |-> "idle"]
    /\ loc = [t \in Threads |-> NoLoc]
    /\ ret = NoRet
    /\ origin = <<>>
    /\ clientRets = [p \in Peers |-> {}]
    /\ idLog = <<>>
    /\ startCounter = 0
    /\ calls = 0
    /\ held = <<>>
    /\ session = NoSession
    /\ rx = NoRx
    /\ cursor = NoCursor
    /\ privacy = NoPrivacy

\* ------------------------------------------------------------ get_conn_id
\* a guard that is leaked instead of dropped
MutexStaysLocked(m) == m

\* the MutexGuard goes out of scope at the end of get_conn_id
MutexUnlock(m) == [m EXCEPT !.holder = 0]

\* let mut lock = CLIENT_CONN_ID_COUNTER.lock().unwrap();
get_conn_id_lock(t) ==
    /\ pc[t] = "gci_call"
    /\ CanLock(mutex)
    /\ IF mutex.poisoned
       THEN /\ pc' = [pc EXCEPT ![t] = "panicked"]
            /\ UNCHANGED mutex
       ELSE /\ pc' = [pc EXCEPT ![t] = "gci_locked"]
            /\ mutex' = [mutex EXCEPT !.holder = t]
    /\ UNCHANGED <<cursor, rx, privacy, target_os_windows, session, held,
                   VEC_MSG_CHANNEL, CLIENT_CONN_ID_COUNTER, channels, rwlock,
                   loc, ret, origin, clientRets, idLog, startCounter, calls>>

\* *lock += 1;
get_conn_id_incr(t) ==
    /\ pc[t] = "gci_locked"
    /\ \E o \in IncrOutcomes(CLIENT_CONN_ID_COUNTER) :
         /\ CLIENT_CONN_ID_COUNTER' = o.val
         /\ IF o.panic
            THEN /\ pc' = [pc EXCEPT ![t] = "panicked"]
                 /\ mutex' = [holder |-> 0, poisoned |-> TRUE]
            ELSE /\ pc' = [pc EXCEPT ![t] = "gci_incd"]
                 /\ UNCHANGED mutex
    /\ UNCHANGED <<cursor, rx, privacy, target_os_windows, session, held,
                   VEC_MSG_CHANNEL, channels, rwlock, loc, ret, origin,
                   clientRets, idLog, startCounter, calls>>

\* *lock   (the value is read, the guard is dropped, the caller continues)
get_conn_id_ret(t) ==
    /\ pc[t] = "gci_incd"
    /\ loc' = IF loc[t].cont = "idle"
              THEN [loc EXCEPT ![t] = NoLoc]
              ELSE [loc EXCEPT ![t].id = CLIENT_CONN_ID_COUNTER]
    /\ idLog' = Append(idLog, CLIENT_CONN_ID_COUNTER)
    /\ mutex' = MutexUnlock(mutex)
    /\ pc' = [pc EXCEPT ![t] = loc[t].cont]
    /\ ret' = IF loc[t].cont = "idle"
              THEN [NoRet EXCEPT !.op = "get_conn_id",
                                 !.conn = CLIENT_CONN_ID_COUNTER]
              ELSE ret
    /\ UNCHANGED <<cursor, rx, privacy, target_os_windows, session, held,
                   VEC_MSG_CHANNEL, CLIENT_CONN_ID_COUNTER, channels, rwlock,
                   origin, clientRets, startCounter, calls>>

\* -------------------------------------------------- get_rx_cliprdr_client
\* let mut lock = VEC_MSG_CHANNEL.write().unwrap();
\* match lock.iter().find(|x| x.peer_id == peer_id) {
\*     Some(msg_channel) => (msg_channel.conn_id, msg_channel.receiver.clone()),
\*     None => { let (sender, receiver) = unbounded_channel(); ...
get_rx_cliprdr_client_find(t, peer_id) ==
    /\ pc[t] = "idle"
    /\ calls < MaxCalls
    /\ calls' = calls + 1
    /\ CanWrite(rwlock)
    /\ LET i == FindPeer(VEC_MSG_CHANNEL, peer_id) IN
       IF i # 0
       THEN /\ ret' = [NoRet EXCEPT !.op = "get_rx_cliprdr_client",
                                    !.peer = peer_id,
                                    !.conn = VEC_MSG_CHANNEL[i].conn_id,
                                    !.ch = VEC_MSG_CHANNEL[i].ch]
            /\ clientRets' = [clientRets EXCEPT ![peer_id] =
                   @ \cup {<<VEC_MSG_CHANNEL[i].conn_id, VEC_MSG_CHANNEL[i].ch>>}]
            /\ held' = [held EXCEPT ![VEC_MSG_CHANNEL[i].ch] = TRUE]
            /\ UNCHANGED <<rwlock, pc, loc>>
       ELSE /\ Len(VEC_MSG_CHANNEL) < MaxEntries
            /\ rwlock' = [rwlock EXCEPT !.writer = t]
            /\ pc' = [pc EXCEPT ![t] = "gci_call"]
            /\ loc' = [loc EXCEPT ![t] = [NoLoc EXCEPT !.peer = peer_id,
                                                       !.cont = "c_push"]]
            /\ UNCHANGED <<ret, clientRets, held>>
    /\ UNCHANGED <<cursor, rx, privacy, target_os_windows, session, VEC_MSG_CHANNEL,
                   CLIENT_CONN_ID_COUNTER, channels, mutex, origin, idLog,
                   startCounter>>

\*         let conn_id = get_conn_id();
\*         let msg_channel = MsgChannel { peer_id, conn_id, sender, receiver };
\*         lock.push(msg_channel);
\*         (conn_id, receiver2)
get_rx_cliprdr_client_push(t) ==
    /\ pc[t] = "c_push"
    /\ LET ch == Len(channels) + 1 IN
       /\ channels' = Append(channels, unbounded_channel)
       /\ held' = Append(held, TRUE)
       /\ VEC_MSG_CHANNEL' =
              VecPush(VEC_MSG_CHANNEL, MsgChannel(loc[t].peer, loc[t].id, ch))
       /\ ret' = [NoRet EXCEPT !.op = "get_rx_cliprdr_client",
                               !.peer = loc[t].peer, !.conn = loc[t].id,
                               !.ch = ch, !.created = TRUE]
       /\ clientRets' = [clientRets EXCEPT ![loc[t].peer] =
                             @ \cup {<<loc[t].id, ch>>}]
    /\ origin' = Append(origin, "client")
    /\ rwlock' = [rwlock EXCEPT !.writer = 0]
    /\ pc' = [pc EXCEPT ![t] = "idle"]
    /\ loc' = [loc EXCEPT ![t] = NoLoc]
    /\ UNCHANGED <<cursor, rx, privacy, target_os_windows, session,
                   CLIENT_CONN_ID_COUNTER, mutex, idLog, startCounter, calls>>

\* -------------------------------------------------- get_rx_cliprdr_server
\* the whole body runs under the write lock and takes no other lock
get_rx_cliprdr_server(t, conn_id) ==
    /\ pc[t] = "idle"
    /\ calls < MaxCalls
    /\ calls' = calls + 1
    /\ CanWrite(rwlock)
    /\ LET i == FindConn(VEC_MSG_CHANNEL, conn_id)
           ch == Len(channels) + 1 IN
       IF i # 0
       THEN /\ ret' = [NoRet EXCEPT !.op = "get_rx_cliprdr_server",
                                    !.conn = conn_id,
                                    !.ch = VEC_MSG_CHANNEL[i].ch]
            /\ held' = [held EXCEPT ![VEC_MSG_CHANNEL[i].ch] = TRUE]
            /\ UNCHANGED <<VEC_MSG_CHANNEL, channels, origin>>
       ELSE /\ Len(VEC_MSG_CHANNEL) < MaxEntries
            /\ channels' = Append(channels, unbounded_channel)
            /\ held' = Append(held, TRUE)
            /\ VEC_MSG_CHANNEL' =
                   VecPush(VEC_MSG_CHANNEL, MsgChannel("", conn_id, ch))
            /\ origin' = Append(origin, "server")
            /\ ret' = [NoRet EXCEPT !.op = "get_rx_cliprdr_server",
                                    !.conn = conn_id, !.ch = ch,
                                    !.created = TRUE]
    /\ UNCHANGED <<cursor, rx, privacy, target_os_windows, session,
                   CLIENT_CONN_ID_COUNTER, rwlock, mutex, pc, loc, clientRets,
                   idLog, startCounter>>

\* ---------------------------------------------------- get_client_conn_id
\* VEC_MSG_CHANNEL.read().unwrap().iter().find(|x| x.peer_id == peer_id)
\*     .map(|x| x.conn_id): one expression under the read lock
get_client_conn_id(t, peer_id) ==
    /\ pc[t] = "idle"
    /\ calls < MaxCalls
    /\ calls' = calls + 1
    /\ CanRead(rwlock)
    /\ LET i == FindPeer(VEC_MSG_CHANNEL, peer_id) IN
       ret' = IF i # 0
              THEN [NoRet EXCEPT !.op = "get_client_conn_id",
                                 !.peer = peer_id, !.res = "Some",
                                 !.conn = VEC_MSG_CHANNEL[i].conn_id]
              ELSE [NoRet EXCEPT !.op = "get_client_conn_id",
                                 !.peer = peer_id, !.res = "None"]
    /\ UNCHANGED <<cursor, rx, privacy, target_os_windows, session, held,
                   VEC_MSG_CHANNEL, CLIENT_CONN_ID_COUNTER, channels, rwlock,
                   mutex, pc, loc, origin, clientRets, idLog, startCounter>>

\* a directed send that takes the latest entry carrying the conn_id
send_data_to_channel_last(vec, chans, conn_id, data) ==
    LET S == {i \in 1..Len(vec) : vec[i].conn_id = conn_id} IN
    IF S = {}
    THEN [channels |-> chans, res |-> "ErrNotFound"]
    ELSE LET i == CHOOSE k \in S : \A j \in S : j <= k
             s == SenderSend(chans[vec[i].ch], data) IN
         [channels |-> [chans EXCEPT ![vec[i].ch] = s.q], res |-> s.res]

\* ------------------------------------------------------------- dispatcher
\* a directed send that takes the first entry of the registry, whatever its
\* conn_id
send_data_to_channel_any(vec, chans, conn_id, data) ==
    IF vec = <<>>
    THEN [channels |-> chans, res |-> "ErrNotFound"]
    ELSE LET s == SenderSend(chans[vec[1].ch], data) IN
         [channels |-> [chans EXCEPT ![vec[1].ch] = s.q], res |-> s.res]

\* send_data_to_channel(conn_id, data): under the read lock, find the first
\* entry with that conn_id; msg_channel.sender.send(data)?; Ok(()) or
\* bail!("conn_id not found").  The value is the queues afterwards and the
\* Result.
send_data_to_channel(vec, chans, conn_id, data) ==
    LET i == FindConn(vec, conn_id) IN
    IF i = 0
    THEN [channels |-> chans, res |-> "ErrNotFound"]
    ELSE LET s == SenderSend(chans[vec[i].ch], data) IN
         [channels |-> [chans EXCEPT ![vec[i].ch] = s.q], res |-> s.res]

\* what send_data hands to its caller for the Result r of the function it
\* called: on Windows `return send_data_to_channel(..)`; elsewhere the calls
\* are statements ending in `;`, so the Result is dropped
send_data_result(windows, r) == IF windows THEN r ELSE "Unit"

\* a send_data that never takes the broadcast branch
IsBroadcastNever(windows, conn_id) == FALSE

\* a dispatcher that broadcasts on conn_id 0 on every platform
IsBroadcastOnZero(windows, conn_id) == conn_id = 0

\* which branch send_data takes: on Windows always send_data_to_channel,
\* elsewhere `if conn_id == 0 { send_data_to_all(data) }`
IsBroadcast(windows, conn_id) == ~windows /\ conn_id = 0

\* the model keeps at most MaxQueue messages in a queue
HasRoom(chans, ch) == chans[ch].closed \/ Len(chans[ch].buf) < MaxQueue

\* send_data(conn_id, data): the directed branch runs to completion in one
\* step (read lock, find, send, unlock); the broadcast branch enters the loop
\* of send_data_to_all holding the read lock
send_data(t, conn_id, data) ==
    /\ pc[t] = "idle"
    /\ calls < MaxCalls
    /\ calls' = calls + 1
    /\ CanRead(rwlock)
    /\ IF ~IsBroadcast(target_os_windows, conn_id)
       THEN LET r == send_data_to_channel(VEC_MSG_CHANNEL, channels, conn_id, data)
                i == FindConn(VEC_MSG_CHANNEL, conn_id) IN
            /\ i # 0 => HasRoom(channels, VEC_MSG_CHANNEL[i].ch)
            /\ channels' = r.channels
            /\ ret' = [NoRet EXCEPT !.op = "send_data", !.conn = conn_id,
                                    !.msg = data, !.res = r.res,
                                    !.out = send_data_result(target_os_windows, r.res)]
            /\ UNCHANGED <<rwlock, pc, loc>>
       ELSE /\ rwlock' = [rwlock EXCEPT !.readers = @ \cup {t}]
            /\ pc' = [pc EXCEPT ![t] = "to_all"]
            /\ loc' = [loc EXCEPT ![t] = [NoLoc EXCEPT !.idx = 1, !.msg = data]]
            /\ UNCHANGED <<channels, ret>>
    /\ UNCHANGED <<cursor, rx, privacy, target_os_windows, session, held,
                   VEC_MSG_CHANNEL, CLIENT_CONN_ID_COUNTER, mutex, origin,
                   clientRets, idLog, startCounter>>

\* a loop that ends at the first failed send (`?` instead of allow_err!)
LoopStopsOnError(res) == res = "Ok"

\* what one failed msg_channel.sender.send(..) does to the loop of
\* send_data_to_all: allow_err! logs it and the loop goes on
LoopGoesOn(res) == TRUE

\* for msg_channel in VEC_MSG_CHANNEL.read().unwrap().iter() {
\*     allow_err!(msg_channel.sender.send(data.clone()));
\* }                                                  (one iteration)
send_data_to_all_next(t) ==
    /\ pc[t] = "to_all"
    /\ loc[t].idx <= Len(VEC_MSG_CHANNEL)
    /\ LET ch == VEC_MSG_CHANNEL[loc[t].idx].ch
           s == SenderSend(channels[ch], loc[t].msg) IN
       /\ HasRoom(channels, ch)
       /\ channels' = [channels EXCEPT ![ch] = s.q]
       /\ loc' = [loc EXCEPT
              ![t].idx = IF LoopGoesOn(s.res) THEN @ + 1
                         ELSE Len(VEC_MSG_CHANNEL) + 1,
              ![t].sent = IF s.res = "Ok" THEN Append(@, loc[t].idx) ELSE @]
    /\ UNCHANGED <<cursor, rx, privacy, target_os_windows, session, held,
                   VEC_MSG_CHANNEL, CLIENT_CONN_ID_COUNTER, rwlock, mutex, pc,
                   ret, origin, clientRets, idLog, startCounter, calls>>

\* the loop of send_data_to_all is over: Ok(()), the read guard is dropped
\* and send_data (not Windows) drops the Result
send_data_to_all_done(t) ==
    /\ pc[t] = "to_all"
    /\ loc[t].idx > Len(VEC_MSG_CHANNEL)
    /\ ret' = [NoRet EXCEPT !.op = "send_data", !.conn = 0,
                            !.msg = loc[t].msg, !.res = "Ok",
                            !.out = send_data_result(target_os_windows, "Ok"),
                            !.n = Len(VEC_MSG_CHANNEL), !.sent = loc[t].sent]
    /\ rwlock' = [rwlock EXCEPT !.readers = @ \ {t}]
    /\ pc' = [pc EXCEPT ![t] = "idle"]
    /\ loc' = [loc EXCEPT ![t] = NoLoc]
    /\ UNCHANGED <<cursor, rx, privacy, target_os_windows, session, held,
                   VEC_MSG_CHANNEL, CLIENT_CONN_ID_COUNTER, channels, mutex,
                   origin, clientRets, idLog, startCounter, calls>>

\* ---------------------------------------------------- holders of a handle
\* receiver.lock().await.recv().await by a holder of the handle of queue ch:
\* takes the oldest message (buffered messages stay receivable after close)
ReceiverRecv(ch) ==
    /\ ch \in 1..Len(channels)
    /\ held[ch]
    /\ channels[ch].buf # <<>>
    /\ channels' = [channels EXCEPT ![ch].buf = Tail(@)]
    /\ ret' = [NoRet EXCEPT !.op = "recv", !.ch = ch,
                            !.msg = Head(channels[ch].buf)]
    /\ UNCHANGED <<cursor, rx, privacy, target_os_windows, session, held,
                   VEC_MSG_CHANNEL, CLIENT_CONN_ID_COUNTER, rwlock, mutex, pc,
                   loc, origin, clientRets, idLog, startCounter, calls>>

\* receiver.lock().await.close() by a holder of the handle of queue ch: the
\* only way a queue closes, since the registry keeps its own receiver clone
ReceiverClose(ch) ==
    /\ ch \in 1..Len(channels)
    /\ held[ch]
    /\ ~channels[ch].closed
    /\ channels' = [channels EXCEPT ![ch].closed = TRUE]
    /\ UNCHANGED <<cursor, rx, privacy, target_os_windows, session, held,
                   VEC_MSG_CHANNEL, CLIENT_CONN_ID_COUNTER, rwlock, mutex, pc,
                   loc, ret, origin, clientRets, idLog, startCounter, calls>>

\* ------------------------------------------------------- specifications
Next ==
    \/ \E t \in Threads, p \in Peers : get_rx_cliprdr_client_find(t, p)
    \/ \E t \in Threads : get_conn_id_lock(t)
    \/ \E t \in Threads : get_conn_id_incr(t)
    \/ \E t \in Threads : get_conn_id_ret(t)
    \/ \E t \in Threads : get_rx_cliprdr_client_push(t)
    \/ \E t \in Threads, c \in ConnArgs : get_rx_cliprdr_server(t, c)
    \/ \E t \in Threads, p \in Peers : get_client_conn_id(t, p)
    \/ \E t \in Threads, c \in ConnArgs \cup {MaxConnArg + 1}, m \in Msgs :
           send_data(t, c, m)
    \/ \E t \in Threads : send_data_to_all_next(t)
    \/ \E t \in Threads : send_data_to_all_done(t)
    \/ \E ch \in 1..MaxEntries : ReceiverRecv(ch)
    \/ \E ch \in 1..MaxEntries : ReceiverClose(ch)

Spec == Init /\ [][Next]_vars

\* The id allocator on its own: threads call get_conn_id directly, in a
\* process that has already made some number of calls.
InitIds ==
    /\ target_os_windows \in BOOLEAN
    /\ VEC_MSG_CHANNEL = <<>>
    /\ CLIENT_CONN_ID_COUNTER \in StartCounters
    /\ startCounter = CLIENT_CONN_ID_COUNTER
    /\ channels = <<>>
    /\ rwlock = [writer |-> 0, readers |-> {}]
    /\ mutex = [holder |-> 0, poisoned |-> FALSE]
    /\ pc = [t \in Threads |-> "idle"]
    /\ loc = [t \in Threads |-> NoLoc]
    /\ ret = NoRet
    /\ origin = <<>>
    /\ clientRets = [p \in Peers |-> {}]
    /\ idLog = <<>>
    /\ calls = 0
    /\ held = <<>>
    /\ session = NoSession
    /\ rx = NoRx
    /\ cursor = NoCursor
    /\ privacy = NoPrivacy

\* a thread calls get_conn_id()
get_conn_id_call(t) ==
    /\ pc[t] = "idle"
    /\ calls < MaxCalls
    /\ calls' = calls + 1
    /\ pc' = [pc EXCEPT ![t] = "gci_call"]
    /\ UNCHANGED <<cursor, rx, privacy, target_os_windows, session, held,
                   VEC_MSG_CHANNEL, CLIENT_CONN_ID_COUNTER, channels, rwlock,
                   mutex, loc, ret, origin, clientRets, idLog, startCounter>>

NextIds ==
    \/ \E t \in Threads : get_conn_id_call(t)
    \/ \E t \in Threads : get_conn_id_lock(t)
    \/ \E t \in Threads : get_conn_id_incr(t)
    \/ \E t \in Threads : get_conn_id_ret(t)

SpecIds == InitIds /\ [][NextIds]_vars

\* The registry with callers that also let go of the handles they obtained.
\* Every caller's clone of the receiver Arc of queue ch is dropped: the
\* receiver itself lives on in the registry entry, so the queue stays open
HandlesDrop(ch) ==
    /\ ch \in 1..Len(channels)
    /\ held[ch]
    /\ held' = [held EXCEPT ![ch] = FALSE]
    /\ UNCHANGED <<cursor, rx, privacy, target_os_windows, session, VEC_MSG_CHANNEL,
                   CLIENT_CONN_ID_COUNTER, channels, rwlock, mutex, pc, loc,
                   ret, origin, clientRets, idLog, startCounter, calls>>

NextDrop ==
    \/ Next
    \/ \E ch \in 1..MaxEntries : HandlesDrop(ch)

\* The registry with every call that takes a lock, get_conn_id on its own
\* included, under the scheduling the calls rely on: a thread that is inside
\* a call keeps running.  Which peer, conn_id or message a call names makes no
\* difference to the locks it takes, so two of each are enough here.
NextLive ==
    \/ \E t \in Threads : get_conn_id_call(t)
    \/ \E t \in Threads, p \in {"", "a"} : get_rx_cliprdr_client_find(t, p)
    \/ \E t \in Threads : get_conn_id_lock(t)
    \/ \E t \in Threads : get_conn_id_incr(t)
    \/ \E t \in Threads : get_conn_id_ret(t)
    \/ \E t \in Threads : get_rx_cliprdr_client_push(t)
    \/ \E t \in Threads, c \in {0, 1} : get_rx_cliprdr_server(t, c)
    \/ \E t \in Threads, p \in {"", "a"} : get_client_conn_id(t, p)
    \/ \E t \in Threads, c \in {0, 1} : send_data(t, c, "MonitorReady")
    \/ \E t \in Threads : send_data_to_all_next(t)
    \/ \E t \in Threads : send_data_to_all_done(t)

Fairness ==
    \A t \in Threads :
        /\ WF_vars(get_conn_id_lock(t))
        /\ WF_vars(get_conn_id_incr(t))
        /\ WF_vars(get_conn_id_ret(t))
        /\ WF_vars(get_rx_cliprdr_client_push(t))
        /\ WF_vars(send_data_to_all_next(t))
        /\ WF_vars(send_data_to_all_done(t))

SpecLive == Init /\ [][NextLive]_vars /\ Fairness

\* The virtual-display privacy mode: one PrivacyModeImpl, used through
\* &mut self, so each call runs to its end before the next one starts.
InitPrivacy ==
    /\ target_os_windows = TRUE
    /\ VEC_MSG_CHANNEL = <<>>
    /\ CLIENT_CONN_ID_COUNTER = 0
    /\ startCounter = 0
    /\ channels = <<>>
    /\ rwlock = [writer |-> 0, readers |-> {}]
    /\ mutex = [holder |-> 0, poisoned |-> FALSE]
    /\ pc = [t \in Threads |-> "idle"]
    /\ loc = [t \in Threads |-> NoLoc]
    /\ ret = NoRet
    /\ origin = <<>>
    /\ clientRets = [p \in Peers |-> {}]
    /\ idLog = <<>>
    /\ calls = 0
    /\ held = <<>>
    /\ session = NoSession
    /\ rx = NoRx
    /\ cursor = NoCursor
    /\ \E r \in {"", "json", "unparsable"}, n \in 0..MaxDisplays,
          v \in {{}, {1}} :
           privacy = [NoPrivacy EXCEPT
                          !.reg_recovery = r, !.physical = n, !.plugged = v,
                          !.connectivity = IF r = "" THEN "original"
                                           ELSE "changed"]

\* a caller calls turn_on_privacy(conn_id)
TurnOnPrivacy(conn_id) ==
    /\ \E e \in Env :
           LET r == turn_on_privacy(privacy, conn_id, e) IN
           privacy' = [r.p EXCEPT !.ret =
               [PrivacyRet(privacy, "turn_on_privacy", conn_id) EXCEPT
                    !.res = r.res, !.err = r.err, !.armed = r.armed,
                    !.guard = r.guard, !.guard_conn = r.guard_conn]]
    /\ UNCHANGED <<cursor, rx, target_os_windows, session, held, VEC_MSG_CHANNEL,
                   CLIENT_CONN_ID_COUNTER, channels, rwlock, mutex, pc, loc,
                   ret, origin, clientRets, idLog, startCounter, calls>>

\* a caller calls turn_off_privacy(conn_id, state)
TurnOffPrivacy(conn_id) ==
    /\ \E e \in EnvOff :
           LET r == turn_off_privacy(privacy, conn_id, e) IN
           privacy' = [r.p EXCEPT !.ret =
               [PrivacyRet(privacy, "turn_off_privacy", conn_id) EXCEPT
                    !.res = r.res, !.err = r.err]]
    /\ UNCHANGED <<cursor, rx, target_os_windows, session, held, VEC_MSG_CHANNEL,
                   CLIENT_CONN_ID_COUNTER, channels, rwlock, mutex, pc, loc,
                   ret, origin, clientRets, idLog, startCounter, calls>>

\* a caller calls restore_reg_connectivity(plug_out_monitors)
RestoreRegConnectivity(plug_out_monitors) ==
    /\ \E e \in EnvOff :
           privacy' =
               [restore_reg_connectivity(privacy, plug_out_monitors, e)
                    EXCEPT !.ret =
                   [PrivacyRet(privacy, "restore_reg_connectivity", 0) EXCEPT
                        !.res = "Unit", !.plug_out = plug_out_monitors]]
    /\ UNCHANGED <<cursor, rx, target_os_windows, session, held, VEC_MSG_CHANNEL,
                   CLIENT_CONN_ID_COUNTER, channels, rwlock, mutex, pc, loc,
                   ret, origin, clientRets, idLog, startCounter, calls>>

NextPrivacy ==
    \/ \E c \in PrivacyConns : TurnOnPrivacy(c)
    \/ \E c \in PrivacyConns : TurnOffPrivacy(c)
    \/ \E b \in BOOLEAN : RestoreRegConnectivity(b)

SpecPrivacy == InitPrivacy /\ [][NextPrivacy]_vars

\* what the system does during a direct call of ensure_virtual_display
EnvEnsure ==
    [fail : {"plug_in_peer_request", "set_displays_again",
             "virtual_displays", "none"},
     plug_out_ok : BOOLEAN]

\* a caller calls ensure_virtual_display() (it is a pub fn); the model keeps
\* at most MaxDisplays virtual monitors plugged in
EnsureVirtualDisplay ==
    /\ Cardinality(privacy.plugged) < MaxDisplays
    /\ \E e \in EnvEnsure :
           LET r == ensure_virtual_display(privacy, e) IN
           privacy' = [r.p EXCEPT !.ret =
               [PrivacyRet(privacy, "ensure_virtual_display", 0) EXCEPT
                    !.res = r.res, !.err = r.err,
                    !.plugged_in = r.plugged_in]]
    /\ UNCHANGED <<cursor, rx, target_os_windows, session, held, VEC_MSG_CHANNEL,
                   CLIENT_CONN_ID_COUNTER, channels, rwlock, mutex, pc, loc,
                   ret, origin, clientRets, idLog, startCounter, calls>>

\* ensure_virtual_display called on its own, between turn-offs that
\* restore what it left behind.
NextEnsure ==
    \/ EnsureVirtualDisplay
    \/ \E c \in PrivacyConns : TurnOffPrivacy(c)

SpecEnsure == InitPrivacy /\ [][NextEnsure]_vars

\* The macOS cursor cache: a thread polls get_cursor while the window server
\* changes the cursor and another thread calls reset_input_cache.
\* LATEST_SEED is a static mut read and written without any lock, so the
\* load in the comparison and the store after it are steps of their own.
Seeds == 0..MaxSeed

InitCursor ==
    /\ target_os_windows = FALSE
    /\ VEC_MSG_CHANNEL = <<>>
    /\ CLIENT_CONN_ID_COUNTER = 0
    /\ startCounter = 0
    /\ channels = <<>>
    /\ rwlock = [writer |-> 0, readers |-> {}]
    /\ mutex = [holder |-> 0, poisoned |-> FALSE]
    /\ pc = [t \in Threads |-> "idle"]
    /\ loc = [t \in Threads |-> NoLoc]
    /\ ret = NoRet
    /\ origin = <<>>
    /\ clientRets = [p \in Peers |-> {}]
    /\ idLog = <<>>
    /\ calls = 0
    /\ held = <<>>
    /\ session = NoSession
    /\ rx = NoRx
    /\ privacy = NoPrivacy
    /\ \E s \in Seeds : cursor = [NoCursor EXCEPT !.seed = s]

\* the window server changes the cursor: CGSCurrentCursorSeed() changes
CursorSeedChanges ==
    /\ \E s \in Seeds \ {cursor.seed} : cursor' = [cursor EXCEPT !.seed = s]
    /\ UNCHANGED <<rx, privacy, target_os_windows, session, held,
                   VEC_MSG_CHANNEL, CLIENT_CONN_ID_COUNTER, channels, rwlock,
                   mutex, pc, loc, ret, origin, clientRets, idLog,
                   startCounter, calls>>

\* get_cursor() is called: let seed = CGSCurrentCursorSeed();
unsafe_get_cursor_seed ==
    /\ cursor.pc = "idle"
    /\ cursor' = [cursor EXCEPT !.pc = "seed", !.read = cursor.seed,
                                !.after_reset = cursor.reset_done,
                                !.reset_done = FALSE]
    /\ UNCHANGED <<rx, privacy, target_os_windows, session, held,
                   VEC_MSG_CHANNEL, CLIENT_CONN_ID_COUNTER, channels, rwlock,
                   mutex, pc, loc, ret, origin, clientRets, idLog,
                   startCounter, calls>>

\* what get_cursor hands back, with the seed it read and the LATEST_SEED it
\* compared it with
CursorRet(c, res) ==
    [op |-> "get_cursor", res |-> res, seed |-> c.read, latest |-> c.latest,
     after_reset |-> c.after_reset]

\* if seed == LATEST_SEED { return Ok(None); }
unsafe_get_cursor_compare ==
    /\ cursor.pc = "seed"
    /\ LET c == [cursor EXCEPT !.latest = cursor.LATEST_SEED] IN
       cursor' = IF c.read = c.latest
                 THEN [c EXCEPT !.pc = "idle", !.ret = CursorRet(c, "None")]
                 ELSE [c EXCEPT !.pc = "differs"]
    /\ UNCHANGED <<rx, privacy, target_os_windows, session, held,
                   VEC_MSG_CHANNEL, CLIENT_CONN_ID_COUNTER, channels, rwlock,
                   mutex, pc, loc, ret, origin, clientRets, idLog,
                   startCounter, calls>>

\* LATEST_SEED = seed;
unsafe_get_cursor_store ==
    /\ cursor.pc = "differs"
    /\ cursor' = [cursor EXCEPT !.pc = "stored", !.LATEST_SEED = cursor.read]
    /\ UNCHANGED <<rx, privacy, target_os_windows, session, held,
                   VEC_MSG_CHANNEL, CLIENT_CONN_ID_COUNTER, channels, rwlock,
                   mutex, pc, loc, ret, origin, clientRets, idLog,
                   startCounter, calls>>

\* let c = get_cursor_id()?; Ok(Some(c.1)): get_cursor_id bails when the
\* system cursor, its image or its bitmap cannot be had
unsafe_get_cursor_id ==
    /\ cursor.pc = "stored"
    /\ \E res \in {"Some", "Err"} :
           cursor' = [cursor EXCEPT !.pc = "idle",
                                    !.ret = CursorRet(cursor, res)]
    /\ UNCHANGED <<rx, privacy, target_os_windows, session, held,
                   VEC_MSG_CHANNEL, CLIENT_CONN_ID_COUNTER, channels, rwlock,
                   mutex, pc, loc, ret, origin, clientRets, idLog,
                   startCounter, calls>>

\* reset_input_cache(): LATEST_SEED = 0, by any thread at any time
reset_input_cache ==
    /\ cursor' = [cursor EXCEPT !.LATEST_SEED = 0, !.reset_done = TRUE]
    /\ UNCHANGED <<rx, privacy, target_os_windows, session, held,
                   VEC_MSG_CHANNEL, CLIENT_CONN_ID_COUNTER, channels, rwlock,
                   mutex, pc, loc, ret, origin, clientRets, idLog,
                   startCounter, calls>>

NextCursor ==
    \/ CursorSeedChanges
    \/ unsafe_get_cursor_seed
    \/ unsafe_get_cursor_compare
    \/ unsafe_get_cursor_store
    \/ unsafe_get_cursor_id
    \/ reset_input_cache

SpecCursor == InitCursor /\ [][NextCursor]_vars

SpecDrop == Init /\ [][NextDrop]_vars

\* Several holders of the handles of the queues drain them: each takes the
\* mutex of the handle, receives one message and lets the mutex go.  The
\* receive itself is not atomic (the queue has a single consumer end): it
\* looks at the front message and then takes it off the queue.  One thread
\* registers the queues and sends.
DrainLock(h, ch) ==
    /\ rx.hpc[h] = "idle"
    /\ ch \in 1..Len(channels)
    /\ held[ch]
    /\ CanLockRx(rx.lock[ch])
    /\ rx' = [rx EXCEPT !.lock[ch] = h, !.hpc[h] = "locked", !.hch[h] = ch]
    /\ UNCHANGED <<cursor, privacy, target_os_windows, session, held, VEC_MSG_CHANNEL,
                   CLIENT_CONN_ID_COUNTER, channels, rwlock, mutex, pc, loc,
                   ret, origin, clientRets, idLog, startCounter, calls>>

\* recv().await: waits, holding the mutex, until a message is queued
DrainPeek(h) ==
    /\ rx.hpc[h] = "locked"
    /\ channels[rx.hch[h]].buf # <<>>
    /\ rx' = [rx EXCEPT !.hpc[h] = "peeked",
                        !.peek[h] = Head(channels[rx.hch[h]].buf)]
    /\ UNCHANGED <<cursor, privacy, target_os_windows, session, held, VEC_MSG_CHANNEL,
                   CLIENT_CONN_ID_COUNTER, channels, rwlock, mutex, pc, loc,
                   ret, origin, clientRets, idLog, startCounter, calls>>

DrainPop(h) ==
    /\ rx.hpc[h] = "peeked"
    /\ channels[rx.hch[h]].buf # <<>>
    /\ channels' = [channels EXCEPT ![rx.hch[h]].buf = Tail(@)]
    /\ rx' = [rx EXCEPT !.hpc[h] = "popped",
                        !.got[h] = Append(@, rx.peek[h])]
    /\ UNCHANGED <<cursor, privacy, target_os_windows, session, held, VEC_MSG_CHANNEL,
                   CLIENT_CONN_ID_COUNTER, rwlock, mutex, pc, loc, ret, origin,
                   clientRets, idLog, startCounter, calls>>

\* the MutexGuard is dropped
DrainUnlock(h) ==
    /\ rx.hpc[h] = "popped"
    /\ rx' = [rx EXCEPT !.hpc[h] = "idle", !.hch[h] = 0, !.peek[h] = "",
                        !.lock[rx.hch[h]] = IF @ = h THEN 0 ELSE @]
    /\ UNCHANGED <<cursor, privacy, target_os_windows, session, held, VEC_MSG_CHANNEL,
                   CLIENT_CONN_ID_COUNTER, channels, rwlock, mutex, pc, loc,
                   ret, origin, clientRets, idLog, startCounter, calls>>

NextDrain ==
    \/ \E c \in ConnArgs : get_rx_cliprdr_server(1, c)
    \/ \E c \in ConnArgs, m \in Msgs : send_data(1, c, m)
    \/ send_data_to_all_next(1)
    \/ send_data_to_all_done(1)
    \/ \E h \in Holders, ch \in 1..MaxEntries : DrainLock(h, ch)
    \/ \E h \in Holders : DrainPeek(h)
    \/ \E h \in Holders : DrainPop(h)
    \/ \E h \in Holders : DrainUnlock(h)

SpecDrain == Init /\ [][NextDrain]_vars

\* One session: a peer serializes messages, the consumer deserializes and
\* processes them one at a time.
SessionSend(m) ==
    /\ session.phase = "idle"
    /\ session.n < MaxMsgs
    /\ session' = [session EXCEPT !.phase = "wire", !.sent = m,
                                  !.wire = Serialize(m)]
    /\ UNCHANGED <<cursor, rx, privacy, target_os_windows, VEC_MSG_CHANNEL,
                   CLIENT_CONN_ID_COUNTER, channels, rwlock, mutex, pc, loc,
                   ret, origin, clientRets, idLog, startCounter, calls, held>>

\* the consumer processes the next message: anything but a beginning message
\* before the session has started is a protocol-order violation; the session
\* may stop iff the message just processed allows it
SessionProcess ==
    /\ session.phase = "wire"
    /\ LET m == Deserialize(session.wire) IN
       session' = [session EXCEPT
                       !.phase = "idle",
                       !.n = @ + 1,
                       !.last = m,
                       !.is_beginning = is_beginning_message(m),
                       !.started = @ \/ is_beginning_message(m),
                       !.violation = @ \/ (~session.started
                                           /\ ~is_beginning_message(m)),
                       !.stop_allowed = is_stopping_allowed(m)]
    /\ UNCHANGED <<cursor, rx, privacy, target_os_windows, VEC_MSG_CHANNEL,
                   CLIENT_CONN_ID_COUNTER, channels, rwlock, mutex, pc, loc,
                   ret, origin, clientRets, idLog, startCounter, calls, held>>

NextMsg ==
    \/ \E m \in ClipboardFile : SessionSend(m)
    \/ SessionProcess

SpecMsg == Init /\ [][NextMsg]_vars

\* ------------------------------------------------------------- properties
EntriesOfPeer(p) ==
    {i \in 1..Len(VEC_MSG_CHANNEL) : VEC_MSG_CHANNEL[i].peer_id = p}
EntriesOfConn(c) ==
    {i \in 1..Len(VEC_MSG_CHANNEL) : VEC_MSG_CHANNEL[i].conn_id = c}
PushedByClient(p) == {i \in EntriesOfPeer(p) : origin[i] = "client"}
InsideClientInsert(t) == pc[t] \in {"gci_call", "gci_locked", "gci_incd", "c_push"}

\* C1: for every peer id p, all calls of get_rx_cliprdr_client(p) made so far
\* returned one and the same (conn_id, queue) pair, and at most one entry with
\* that peer id was pushed by get_rx_cliprdr_client (only the first call of a
\* peer can create).
C1_RepeatedCallsSameResult ==
    \A p \in Peers :
        /\ Cardinality(clientRets[p]) <= 1
        /\ Cardinality(PushedByClient(p)) <= 1
        /\ (ret.op = "get_rx_cliprdr_client" /\ ret.peer = p /\ ret.created)
               => clientRets[p] = {<<ret.conn, ret.ch>>}

\* a later call for a peer found the entry an earlier call had pushed, while
\* another entry is registered as well
C1_Witness ==
    /\ ret.op = "get_rx_cliprdr_client"
    /\ ~ret.created
    /\ PushedByClient(ret.peer) # {}
    /\ Len(VEC_MSG_CHANNEL) >= 2

\* C2 as stated: once get_rx_cliprdr_client(p) has returned, to one thread or
\* to several concurrent ones, all results agree and the registry holds
\* exactly one entry whose peer_id is p.
C2_ExactlyOneEntryPerPeer ==
    \A p \in Peers :
        clientRets[p] # {} =>
            /\ Cardinality(clientRets[p]) = 1
            /\ Cardinality(EntriesOfPeer(p)) = 1

\* C2 amended: the find-then-insert section is atomic (one thread at a time
\* is inside it, holding the write lock, and its peer id stays unregistered
\* until it pushes), so all calls for p return the same pair; exactly one
\* entry exists for a non-empty p, and for the empty p at most one entry was
\* pushed by get_rx_cliprdr_client.
C2_ConcurrentCallsAgree ==
    /\ \A t \in Threads :
           InsideClientInsert(t) =>
               /\ rwlock.writer = t
               /\ EntriesOfPeer(loc[t].peer) = {}
               /\ \A u \in Threads \ {t} : pc[u] = "idle"
    /\ \A p \in Peers :
           clientRets[p] # {} =>
               /\ Cardinality(clientRets[p]) = 1
               /\ p # "" => Cardinality(EntriesOfPeer(p)) = 1
               /\ p = "" => Cardinality(PushedByClient(p)) <= 1

\* two calls for one non-empty peer, made by the two threads in any
\* interleaving, have both returned: the later one found the entry that the
\* earlier one pushed
C2_Witness ==
    /\ \E p \in Peers \ {""} :
           /\ clientRets[p] # {}
           /\ ret.op = "get_rx_cliprdr_client" /\ ret.peer = p /\ ~ret.created
    /\ calls = 2

\* C3: no two registry entries share a non-empty peer_id and no two share a
\* conn_id.
C3_UniqueKeys ==
    \A i, j \in 1..Len(VEC_MSG_CHANNEL) :
        i # j =>
            /\ VEC_MSG_CHANNEL[i].conn_id # VEC_MSG_CHANNEL[j].conn_id
            /\ VEC_MSG_CHANNEL[i].peer_id # ""
                   => VEC_MSG_CHANNEL[i].peer_id # VEC_MSG_CHANNEL[j].peer_id

\* a call returns in this step: it started and finished in it, or a thread
\* that was inside a call is idle again
CallReturns ==
    \/ calls' = calls + 1 /\ pc' = pc
    \/ \E t \in Threads : pc[t] # "idle" /\ pc'[t] = "idle"
SendReturns == CallReturns /\ ret'.op = "send_data"
FirstOf(S) == CHOOSE i \in S : \A j \in S : i <= j
QueueOf(i) == VEC_MSG_CHANNEL[i].ch
Delivered(ch, m) == channels' = [channels EXCEPT ![ch].buf = Append(@, m)]

\* C4: every message that a send(c, m) enqueues successfully is appended to
\* the queue whose handle get_rx_cliprdr_client returned together with the
\* conn_id c.
C4_ClientHandleObservesSends ==
    [][(SendReturns /\ ret'.conn # 0 /\ ret'.res = "Ok") =>
          \A p \in Peers : \A r \in clientRets[p] :
              r[1] = ret'.conn =>
                  channels'[r[2]].buf = Append(channels[r[2]].buf, ret'.msg)]_vars

\* C5: in a fresh process, once all of N concurrent get_conn_id calls have
\* returned, the N values are pairwise distinct and are exactly 1..N; while
\* calls are in flight no value has been handed out twice.
C5_ConcurrentIdsCoverOneToN ==
    startCounter = 0 =>
        /\ \A i, j \in 1..Len(idLog) : i # j => idLog[i] # idLog[j]
        /\ (\A t \in Threads : pc[t] = "idle") =>
               /\ Len(idLog) = calls
               /\ {idLog[i] : i \in 1..Len(idLog)} = 1..calls

\* all calls of a fresh process have returned, at least three of them
C5_Witness ==
    /\ startCounter = 0
    /\ \A t \in Threads : pc[t] = "idle"
    /\ Len(idLog) >= 3

\* the values get_conn_id handed out before the modelled calls (release
\* build): 1..startCounter, and past the wrap every value up to startCounter
ReturnedBefore(v) ==
    IF startCounter >= 0 THEN 1 <= v /\ v <= startCounter
    ELSE v >= 1 \/ v <= startCounter

\* C6: get_conn_id returns a strictly increasing sequence that starts at 1,
\* never returns 0 or a value it returned before, and every call returns.
C6_IdsIncreaseForever ==
    /\ \A t \in Threads : pc[t] # "panicked"
    /\ \A i \in 1..Len(idLog) :
           /\ idLog[i] # 0
           /\ ~ReturnedBefore(idLog[i])
           /\ idLog[i] > (IF i = 1 THEN startCounter ELSE idLog[i - 1])
    /\ (startCounter = 0 /\ idLog # <<>>) => idLog[1] = 1

\* C7: send(conn_id, m) with a non-zero conn_id that no entry carries returns
\* the not-found error to its caller and changes neither the registry nor any
\* queue, whatever the build configuration.
C7_UnknownConnIdIsReported ==
    [][(SendReturns /\ ret'.conn # 0 /\ EntriesOfConn(ret'.conn) = {}) =>
          /\ ret'.out = "ErrNotFound"
          /\ UNCHANGED <<VEC_MSG_CHANNEL, channels, CLIENT_CONN_ID_COUNTER>>]_vars

\* C8 as stated: a directed send(c, m), c # 0, with an entry for c appends m
\* to that entry's queue and changes nothing else; it returns in the step
\* that makes it.
C8_DirectedSendAlwaysAppends ==
    [][(SendReturns /\ ret'.conn # 0 /\ EntriesOfConn(ret'.conn) # {}) =>
          /\ Delivered(QueueOf(FirstOf(EntriesOfConn(ret'.conn))), ret'.msg)
          /\ UNCHANGED <<VEC_MSG_CHANNEL, CLIENT_CONN_ID_COUNTER, pc>>]_vars

\* C8 amended: a directed send(c, m), c # 0, with an entry for c appends m to
\* the queue of the earliest entry registered with c, unless that queue has
\* been closed: then the send fails and no queue changes.  In both cases all
\* other queues, the entries and the id counter are unchanged and the call
\* returns in the step that makes it, without waiting for a consumer.
C8_DirectedSendAppendsIfOpen ==
    [][(SendReturns /\ ret'.conn # 0 /\ EntriesOfConn(ret'.conn) # {}) =>
          LET ch == QueueOf(FirstOf(EntriesOfConn(ret'.conn))) IN
          /\ IF channels[ch].closed
             THEN channels' = channels /\ ret'.res = "ErrSend"
             ELSE Delivered(ch, ret'.msg) /\ ret'.res = "Ok"
          /\ UNCHANGED <<VEC_MSG_CHANNEL, CLIENT_CONN_ID_COUNTER, pc>>]_vars

\* a directed send was delivered while a second entry is registered
C8_Witness ==
    /\ ret.op = "send_data" /\ ret.conn # 0 /\ ret.res = "Ok"
    /\ Len(VEC_MSG_CHANNEL) >= 2
    /\ \E i \in EntriesOfConn(ret.conn) : channels[QueueOf(i)].buf # <<>>

\* one iteration of the broadcast loop puts exactly one copy of the message
\* on the queue of the entry it is at, or none when that queue is closed,
\* and touches no other queue
BroadcastStepDelivers ==
    \A t \in Threads :
        (pc[t] = "to_all" /\ pc'[t] = "to_all" /\ loc'[t] # loc[t]) =>
            LET i == loc[t].idx IN
            IF channels[QueueOf(i)].closed
            THEN channels' = channels /\ loc'[t].sent = loc[t].sent
            ELSE /\ Delivered(QueueOf(i), loc[t].msg)
                 /\ loc'[t].sent = Append(loc[t].sent, i)
BroadcastReturns == SendReturns /\ ret'.conn = 0 /\ ~target_os_windows
Range(seq) == {seq[k] : k \in 1..Len(seq)}

\* C9 as stated: with broadcast supported, send(0, m) puts exactly one copy
\* of m on the queue of every entry registered at the time of the call.
C9_BroadcastReachesEveryEntry ==
    [][/\ BroadcastStepDelivers
       /\ BroadcastReturns =>
              ret'.sent = [i \in 1..Len(VEC_MSG_CHANNEL) |-> i]]_vars

\* C9 amended: with broadcast supported, send(0, m) puts exactly one copy of
\* m on the queue of every entry registered at the time of the call whose
\* queue is not closed when the loop reaches it, whichever function created
\* the entry; a closed queue gets none.
C9_BroadcastReachesEveryOpenEntry ==
    [][/\ BroadcastStepDelivers
       /\ BroadcastReturns =>
              /\ ret'.n = Len(VEC_MSG_CHANNEL)
              /\ \A k \in 1..Len(ret'.sent) :
                     ret'.sent[k] \in 1..ret'.n
                     /\ (k > 1 => ret'.sent[k] > ret'.sent[k - 1])
              /\ \A i \in 1..Len(VEC_MSG_CHANNEL) :
                     i \in Range(ret'.sent) \/ channels[QueueOf(i)].closed]_vars

\* a broadcast reached an entry pushed by get_rx_cliprdr_client and one
\* pushed by get_rx_cliprdr_server
C9_Witness ==
    /\ ret.op = "send_data" /\ ret.conn = 0 /\ ~target_os_windows
    /\ \E i, j \in Range(ret.sent) : origin[i] = "client" /\ origin[j] = "server"

\* C10: a broadcast in which the send to one entry fails goes on to the next
\* entry, still delivers to every entry whose queue is open, and
\* send_data_to_all returns Ok.
C10_BroadcastSurvivesClosedQueue ==
    [][/\ \A t \in Threads :
              (pc[t] = "to_all" /\ loc'[t] # loc[t]
               /\ loc[t].idx <= Len(VEC_MSG_CHANNEL)
               /\ channels[QueueOf(loc[t].idx)].closed) =>
                  pc'[t] = "to_all" /\ loc'[t].idx = loc[t].idx + 1
       /\ BroadcastReturns =>
              /\ ret'.res = "Ok"
              /\ \A i \in 1..Len(VEC_MSG_CHANNEL) :
                     i \notin Range(ret'.sent) =>
                         \A j \in (i + 1)..Len(VEC_MSG_CHANNEL) :
                             j \in Range(ret'.sent) \/ channels[QueueOf(j)].closed]_vars

\* a broadcast whose first send failed on a closed queue delivered to a later
\* entry and returned Ok
C10_Witness ==
    /\ ret.op = "send_data" /\ ret.conn = 0 /\ ~target_os_windows
    /\ ret.res = "Ok"
    /\ ret.n >= 2
    /\ 1 \notin Range(ret.sent)
    /\ ret.sent # <<>>

C12_QueueIsFifo ==
    [][\A ch \in 1..Len(channels) :
          LET b == channels[ch].buf
              b2 == channels'[ch].buf IN
          \/ b2 = b
          \/ \E m \in Msgs : b2 = Append(b, m)
          \/ /\ b # <<>>
             /\ b2 = Tail(b)
             /\ ret'.op = "recv" /\ ret'.ch = ch /\ ret'.msg = Head(b)]_vars

\* a consumer has received the first of two different messages sent to its
\* queue; the later one is still queued
C12_Witness ==
    /\ ret.op = "recv"
    /\ channels[ret.ch].buf # <<>>
    /\ channels[ret.ch].buf[1] # ret.msg

\* C13: once every handle callers obtained for a queue has been dropped, the
\* queue is closed, and every later directed send to its conn_id fails with
\* an error and enqueues nothing.
C13_DroppedQueueRejectsSends ==
    [][/\ \A ch \in 1..Len(channels') : ~held'[ch] => channels'[ch].closed
       /\ (SendReturns /\ ret'.conn # 0 /\ EntriesOfConn(ret'.conn) # {}) =>
              LET ch == QueueOf(FirstOf(EntriesOfConn(ret'.conn))) IN
              ~held[ch] => (channels' = channels /\ ret'.res = "ErrSend")]_vars

\* C14: is_beginning_message is true for exactly MonitorReady and FormatList
\* and false for the other six variants whatever their fields hold; a fresh
\* session whose first message is FormatDataRequest is therefore flagged as a
\* protocol-order violation.
C14_BeginningIsReadyOrFormatList ==
    session.n > 0 =>
        /\ session.is_beginning <=>
               session.last.t \in {"MonitorReady", "FormatList"}
        /\ (session.n = 1 /\ session.last.t = "FormatDataRequest") =>
               (~session.is_beginning /\ session.violation)

\* a fresh session has processed FormatDataRequest as its first message
C14_Witness ==
    /\ session.phase = "idle" /\ session.n = 1
    /\ session.last.t = "FormatDataRequest"
    /\ session.violation

\* C15: is_stopping_allowed is true for exactly MonitorReady, FormatList and
\* FormatDataRequest and false for the other five variants; every message
\* for which is_beginning_message is true is stop-eligible as well.
C15_StopEligibleVariants ==
    session.n > 0 =>
        /\ session.stop_allowed <=>
               session.last.t \in {"MonitorReady", "FormatList",
                                   "FormatDataRequest"}
        /\ session.is_beginning => session.stop_allowed

\* the one stop-eligible variant that is not a beginning message has been
\* processed
C15_Witness ==
    /\ session.n > 0
    /\ session.last.t = "FormatDataRequest"
    /\ session.stop_allowed /\ ~session.is_beginning

\* C16: whatever was processed before, each processing step leaves stopping
\* permitted iff the message it processed is stop-eligible: permitted after
\* MonitorReady, FormatList and FormatDataRequest, never right after
\* FileContentsRequest, FileContentsResponse, FormatDataResponse,
\* FormatListResponse or NotifyCallback.
C16_StopFollowsLastMessage ==
    [][(session.phase = "wire" /\ session'.phase = "idle") =>
          /\ session'.last.t \in {"MonitorReady", "FormatList",
                                  "FormatDataRequest"} => session'.stop_allowed
          /\ session'.last.t \in {"FileContentsRequest", "FileContentsResponse",
                                  "FormatDataResponse", "FormatListResponse",
                                  "NotifyCallback"} => ~session'.stop_allowed]_vars

\* a session that started in order has just processed a file transfer
\* request as its third message and may not stop
C16_Witness ==
    /\ session.phase = "idle" /\ session.n = 3
    /\ session.started /\ ~session.violation
    /\ session.last.t = "FileContentsRequest"
    /\ ~session.stop_allowed

\* C19: a message that is serialized with the tagged encoding and then
\* deserialized is the message that was serialized: same variant, same field
\* values, the entries of a FormatList in the same order.
C19_SerializeRoundTrip ==
    [][(session.phase = "wire" /\ session'.phase = "idle") =>
          /\ session'.last = session.sent
          /\ session.sent.t = "FormatList" =>
                 \A i \in 1..Len(session.sent.format_list) :
                     session'.last.format_list[i] = session.sent.format_list[i]]_vars

\* a FormatList of two different entries has gone over the wire
C19_Witness ==
    /\ session.phase = "idle" /\ session.n > 0
    /\ session.last.t = "FormatList"
    /\ Len(session.last.format_list) = 2
    /\ session.last.format_list[1] # session.last.format_list[2]
    /\ session.wire # <<>>

\* C17: get_client_conn_id(p) returns the conn_id of the (earliest) entry
\* whose peer_id equals p, none when no entry carries p, and changes neither
\* the registry, nor any queue, nor the id counter.
C17_LookupIsReadOnly ==
    [][(CallReturns /\ ret'.op = "get_client_conn_id") =>
          /\ IF EntriesOfPeer(ret'.peer) = {}
             THEN ret'.res = "None"
             ELSE /\ ret'.res = "Some"
                  /\ ret'.conn =
                         VEC_MSG_CHANNEL[FirstOf(EntriesOfPeer(ret'.peer))].conn_id
          /\ UNCHANGED <<VEC_MSG_CHANNEL, channels, CLIENT_CONN_ID_COUNTER,
                         held>>]_vars

\* a lookup has found the id of a peer registered behind another entry
C17_Witness ==
    /\ ret.op = "get_client_conn_id" /\ ret.res = "Some"
    /\ Len(VEC_MSG_CHANNEL) >= 2
    /\ VEC_MSG_CHANNEL[1].peer_id # ret.peer
    /\ \E i \in EntriesOfPeer(ret.peer) : VEC_MSG_CHANNEL[i].conn_id = ret.conn

\* C18 as stated: get_rx_cliprdr_server(c) never advances the id counter and
\* leaves an entry with conn_id c and an empty peer_id whose queue it
\* returns: the first call registers it, later calls add nothing.
C18_ServerRegistersEmptyPeer ==
    [][(CallReturns /\ ret'.op = "get_rx_cliprdr_server") =>
          LET e == MsgChannel("", ret'.conn, ret'.ch) IN
          /\ UNCHANGED CLIENT_CONN_ID_COUNTER
          /\ IF \E i \in 1..Len(VEC_MSG_CHANNEL) : VEC_MSG_CHANNEL[i] = e
             THEN UNCHANGED <<VEC_MSG_CHANNEL, channels>>
             ELSE VEC_MSG_CHANNEL' = Append(VEC_MSG_CHANNEL, e)]_vars

\* C18 amended: get_rx_cliprdr_server(c) is a get-or-create keyed by c over
\* all entries: when no entry carries c it appends one entry with conn_id c,
\* an empty peer_id and a new empty queue, otherwise (also when that entry
\* was registered for a peer by get_rx_cliprdr_client) it adds nothing and
\* returns the queue of the earliest entry carrying c.  The earliest entry
\* of a conn_id never changes, so repeated calls return the same queue, and
\* no call advances the id counter.
C18_ServerGetOrCreateByConnId ==
    [][/\ \A c \in ConnArgs :
              EntriesOfConn(c) # {} =>
                  LET i == FirstOf(EntriesOfConn(c)) IN
                  /\ VEC_MSG_CHANNEL'[i] = VEC_MSG_CHANNEL[i]
                  /\ \A j \in 1..(i - 1) : VEC_MSG_CHANNEL'[j].conn_id # c
       /\ (CallReturns /\ ret'.op = "get_rx_cliprdr_server") =>
              /\ UNCHANGED CLIENT_CONN_ID_COUNTER
              /\ IF EntriesOfConn(ret'.conn) = {}
                 THEN /\ ret'.ch = Len(channels) + 1
                      /\ channels' = Append(channels, unbounded_channel)
                      /\ VEC_MSG_CHANNEL' =
                             Append(VEC_MSG_CHANNEL,
                                    MsgChannel("", ret'.conn, ret'.ch))
                 ELSE /\ UNCHANGED <<VEC_MSG_CHANNEL, channels>>
                      /\ ret'.ch = QueueOf(FirstOf(EntriesOfConn(ret'.conn)))]_vars

\* the first get_rx_cliprdr_server(c) found c on an entry that
\* get_rx_cliprdr_client had registered for a peer and returned its queue
C18_Witness ==
    /\ ret.op = "get_rx_cliprdr_server" /\ ~ret.created
    /\ \E i \in EntriesOfConn(ret.conn) :
           /\ VEC_MSG_CHANNEL[i].peer_id # ""
           /\ VEC_MSG_CHANNEL[i].ch = ret.ch
    /\ \A i \in EntriesOfConn(ret.conn) : origin[i] = "client"

\* C20: the registry is append-only: no step removes, replaces or moves an
\* entry; every registered entry keeps its position, peer_id, conn_id and
\* queue.
C20_RegistryIsAppendOnly ==
    [][/\ Len(VEC_MSG_CHANNEL') >= Len(VEC_MSG_CHANNEL)
       /\ \A i \in 1..Len(VEC_MSG_CHANNEL) :
              VEC_MSG_CHANNEL'[i] = VEC_MSG_CHANNEL[i]]_vars

\* both functions have registered entries, three in all
C20_Witness ==
    /\ Len(VEC_MSG_CHANNEL) = 3
    /\ \E i, j \in 1..3 : origin[i] = "client" /\ origin[j] = "server"

\* C21: every entry of the registry has a conn_id greater than 0.
C21_ConnIdsPositive ==
    \A i \in 1..Len(VEC_MSG_CHANNEL) : VEC_MSG_CHANNEL[i].conn_id > 0

\* C22: holders that drain one queue through its shared handle are
\* serialized by the mutex of the handle: no two of them are inside a
\* receive on the same queue, and every message that leaves a queue is the
\* front message, is handed to exactly one holder and to no other.
C22_DrainsAreSerialized ==
    [][/\ \A h1, h2 \in Holders :
              (h1 # h2 /\ rx.hpc[h1] # "idle" /\ rx.hpc[h2] # "idle") =>
                  rx.hch[h1] # rx.hch[h2]
       /\ \A ch \in 1..Len(channels) :
              channels'[ch].buf # channels[ch].buf =>
                  \/ \E m \in Msgs : channels'[ch].buf = Append(channels[ch].buf, m)
                  \/ /\ channels[ch].buf # <<>>
                     /\ channels'[ch].buf = Tail(channels[ch].buf)
                     /\ \E h \in Holders :
                            /\ rx.hch[h] = ch
                            /\ rx'.got[h] = Append(rx.got[h], Head(channels[ch].buf))
                            /\ \A g \in Holders \ {h} : rx'.got[g] = rx.got[g]]_vars

\* two holders have drained the same queue: each got one of the two
\* different messages that were sent to it
C22_Witness ==
    /\ \A h \in Holders : rx.hpc[h] = "idle" /\ Len(rx.got[h]) = 1
    /\ rx.got[1] # rx.got[2]
    /\ \E ch \in 1..Len(channels) : channels[ch].buf = <<>> /\ ~channels[ch].closed
    /\ Len(channels) = 1

\* every lock of the registry is free
LocksFree == rwlock.writer = 0 /\ rwlock.readers = {} /\ mutex.holder = 0

\* C23: no interleaving of the calls deadlocks: the lock of the id counter
\* is held only by a thread that holds no registry lock or by the thread
\* that holds the registry write lock, never by one that then asks for a
\* registry lock; every call that has started returns and all locks are
\* free again and again.
C23_NoDeadlock ==
    /\ [](mutex.holder # 0 =>
              /\ mutex.holder \notin rwlock.readers
              /\ loc[mutex.holder].cont # "idle" => rwlock.writer = mutex.holder
              /\ pc[mutex.holder] \in {"gci_locked", "gci_incd"})
    /\ \A t \in Threads : (pc[t] # "idle") ~> (pc[t] = "idle")
    /\ []<>LocksFree

\* one thread waits for the lock of the id counter, holding the registry
\* write lock, while another thread holds the counter's lock alone
C23_Witness ==
    \E t, u \in Threads :
        /\ pc[t] = "gci_call" /\ rwlock.writer = t
        /\ mutex.holder = u /\ u # t

\* the entries get_rx_cliprdr_client pushed, and the calls that have taken
\* an id and not yet pushed their entry
ClientEntries == {i \in 1..Len(VEC_MSG_CHANNEL) : origin[i] = "client"}
HoldingNewId == {t \in Threads : pc[t] \in {"gci_incd", "c_push"}}

\* C24: the id counter equals the number of entries get_rx_cliprdr_client
\* created (plus the one entry a call is creating under the write lock,
\* between taking its id and pushing), and those entries carry the ids
\* 1..counter in registration order; lookups, calls that find an entry and
\* get_rx_cliprdr_server consume no id.
C24_CounterCountsClientEntries ==
    /\ CLIENT_CONN_ID_COUNTER =
           Cardinality(ClientEntries) + Cardinality(HoldingNewId)
    /\ rwlock.writer = 0 => CLIENT_CONN_ID_COUNTER = Cardinality(ClientEntries)
    /\ \A i \in ClientEntries :
           VEC_MSG_CHANNEL[i].conn_id =
               Cardinality({j \in ClientEntries : j <= i})

\* two peers are registered with an entry of get_rx_cliprdr_server between
\* them, and a later call found an entry instead of creating one
C24_Witness ==
    /\ CLIENT_CONN_ID_COUNTER = 2
    /\ Len(VEC_MSG_CHANNEL) = 3 /\ origin[2] = "server"
    /\ rwlock.writer = 0

\* C25: get_client_conn_id(p) and get_rx_cliprdr_client(p) resolve to an
\* entry that get_rx_cliprdr_server created only when p is the empty string;
\* for the empty string, when an entry with an empty peer_id is registered,
\* they return the earliest such entry and allocate no id.
C25_EmptyPeerResolvesToServerEntry ==
    [][/\ (CallReturns /\ ret'.op = "get_rx_cliprdr_client") =>
              /\ \A i \in 1..Len(VEC_MSG_CHANNEL') :
                     (VEC_MSG_CHANNEL'[i].ch = ret'.ch /\ origin'[i] = "server")
                         => ret'.peer = ""
              /\ (ret'.peer = "" /\ EntriesOfPeer("") # {}) =>
                     LET e == VEC_MSG_CHANNEL[FirstOf(EntriesOfPeer(""))] IN
                     /\ ret'.conn = e.conn_id /\ ret'.ch = e.ch
                     /\ UNCHANGED <<CLIENT_CONN_ID_COUNTER, VEC_MSG_CHANNEL>>
       /\ (CallReturns /\ ret'.op = "get_client_conn_id"
                       /\ ret'.res = "Some") =>
              /\ ret'.peer # "" =>
                     \E i \in 1..Len(VEC_MSG_CHANNEL) :
                         /\ origin[i] = "client"
                         /\ VEC_MSG_CHANNEL[i].peer_id = ret'.peer
                         /\ VEC_MSG_CHANNEL[i].conn_id = ret'.conn
              /\ ret'.peer = "" =>
                     /\ ret'.conn =
                            VEC_MSG_CHANNEL[FirstOf(EntriesOfPeer(""))].conn_id
                     /\ UNCHANGED <<CLIENT_CONN_ID_COUNTER, VEC_MSG_CHANNEL>>]_vars

\* get_rx_cliprdr_client("") has returned the first of two entries that
\* get_rx_cliprdr_server registered, and no id has been allocated
C25_Witness ==
    /\ ret.op = "get_rx_cliprdr_client" /\ ret.peer = "" /\ ~ret.created
    /\ Cardinality(EntriesOfPeer("")) = 2
    /\ origin[1] = "server" /\ ret.ch = VEC_MSG_CHANNEL[1].ch
    /\ CLIENT_CONN_ID_COUNTER = 0

\* C26: a directed send(c, m) and get_rx_cliprdr_server(c) resolve c to the
\* same entry, the earliest registered entry whose conn_id is c: the handle
\* the one returns is the queue of that entry, the message of the other
\* goes to the queue of that entry, and no step changes which entry it is.
C26_SendAndServerResolveAlike ==
    [][/\ (CallReturns /\ ret'.op = "get_rx_cliprdr_server") =>
              LET S == {i \in 1..Len(VEC_MSG_CHANNEL') :
                            VEC_MSG_CHANNEL'[i].conn_id = ret'.conn} IN
              S # {} /\ ret'.ch = VEC_MSG_CHANNEL'[FirstOf(S)].ch
       /\ (SendReturns /\ ~IsBroadcast(target_os_windows, ret'.conn)
                       /\ ret'.res = "Ok") =>
              /\ EntriesOfConn(ret'.conn) # {}
              /\ Delivered(QueueOf(FirstOf(EntriesOfConn(ret'.conn))), ret'.msg)
       /\ \A c \in ConnArgs :
              EntriesOfConn(c) # {} =>
                  LET i == FirstOf(EntriesOfConn(c)) IN
                  /\ VEC_MSG_CHANNEL'[i].ch = VEC_MSG_CHANNEL[i].ch
                  /\ \A j \in 1..(i - 1) : VEC_MSG_CHANNEL'[j].conn_id # c]_vars

\* two entries carry the conn_id of a send; the message is in the queue of
\* the earlier one, the one get_rx_cliprdr_server registered
C26_Witness ==
    /\ ret.op = "send_data" /\ ret.res = "Ok"
    /\ Cardinality(EntriesOfConn(ret.conn)) = 2
    /\ LET i == FirstOf(EntriesOfConn(ret.conn)) IN
       /\ origin[i] = "server"
       /\ channels[QueueOf(i)].buf = <<ret.msg>>

\* -------------------------------------------------------- privacy mode
\* a step of the named call: every call leaves its record in privacy.ret
PrivacyReturns(op) == privacy' # privacy /\ privacy'.ret.op = op

\* the PrivacyModeImpl and system of p, whatever call was recorded last
WithoutRet(p) == [p EXCEPT !.ret = NoPrivacyRet]

\* C27: turn_on_privacy stores the requested conn_id only on the path where
\* every step succeeded; when a step fails after the rollback guard was
\* armed, turn_off_privacy has run with the invalid connection id before the
\* error is returned and the stored conn_id is not the requested id.
C27_GuardRollsBackTurnOn ==
    [][PrivacyReturns("turn_on_privacy") =>
          LET r == privacy'.ret IN
          /\ privacy'.conn_id # privacy.conn_id =>
                 /\ r.res = "Ok" /\ r.armed /\ r.guard = "none"
                 /\ privacy'.conn_id = r.conn
          /\ (r.armed /\ r.res = "Err") =>
                 /\ r.guard \in {"Ok", "Err"}
                 /\ r.guard_conn = INVALID_PRIVACY_MODE_CONN_ID
                 /\ privacy'.conn_id # r.conn]_vars

\* a turn-on for a valid connection failed after the guard was armed, the
\* guard's turn-off went through and the connection is not stored
C27_Witness ==
    /\ privacy.ret.op = "turn_on_privacy"
    /\ privacy.ret.res = "Err" /\ privacy.ret.armed
    /\ privacy.ret.err = "commit_change_display"
    /\ privacy.ret.guard = "Ok"
    /\ privacy.ret.conn # INVALID_PRIVACY_MODE_CONN_ID
    /\ privacy.conn_id # privacy.ret.conn

\* C28: whenever turn_off_privacy returns success (called directly or by the
\* guard of a failed turn-on), the stored conn_id is the invalid connection
\* id and the saved physical-display list, virtual-display list and
\* added-virtual-display list are empty.
C28_TurnOffClearsEverything ==
    (\/ privacy.ret.op = "turn_off_privacy" /\ privacy.ret.res = "Ok"
     \/ privacy.ret.op = "turn_on_privacy" /\ privacy.ret.guard = "Ok") =>
        /\ privacy.conn_id = INVALID_PRIVACY_MODE_CONN_ID
        /\ privacy.displays = <<>>
        /\ privacy.virtual_displays = <<>>
        /\ privacy.virtual_displays_added = <<>>

\* privacy mode was on for a connection and that connection turned it off
C28_Witness ==
    /\ privacy.ret.op = "turn_off_privacy" /\ privacy.ret.res = "Ok"
    /\ privacy.ret.pre_conn # INVALID_PRIVACY_MODE_CONN_ID
    /\ privacy.ret.conn = privacy.ret.pre_conn
    /\ privacy.conn_id = INVALID_PRIVACY_MODE_CONN_ID

\* C29: a turn_off_privacy in which the connection-id check or the input
\* unhook fails returns that error and leaves the saved displays, the added
\* virtual displays, the system and the stored conn_id as they were; no
\* other step of turn_off_privacy fails.
C29_FailedTurnOffChangesNothing ==
    [][PrivacyReturns("turn_off_privacy") =>
          LET r == privacy'.ret IN
          /\ r.res = "Err" <=> r.err \in {"check_off_conn_id", "unhook"}
          /\ r.res = "Err" => WithoutRet(privacy') = WithoutRet(privacy)]_vars

\* privacy mode is on, the unhook of a turn-off failed and it is still on
C29_Witness ==
    /\ privacy.ret.op = "turn_off_privacy"
    /\ privacy.ret.res = "Err" /\ privacy.ret.err = "unhook"
    /\ privacy.conn_id # INVALID_PRIVACY_MODE_CONN_ID
    /\ privacy.displays # <<>>
    /\ privacy.virtual_displays_added # <<>>
    /\ privacy.disabled

\* C30: after any call of restore_reg_connectivity (its own, or the one
\* inside a successful turn_off_privacy) the reg_recovery option is empty,
\* also when the value does not parse or the restore fails; a call made
\* while the option is empty changes nothing, plugged-in monitors included.
C30_RestoreRegIsIdempotent ==
    [][/\ PrivacyReturns("restore_reg_connectivity") =>
              /\ privacy'.reg_recovery = ""
              /\ privacy.reg_recovery = "" =>
                     WithoutRet(privacy') = WithoutRet(privacy)
       /\ (PrivacyReturns("turn_off_privacy") /\ privacy'.ret.res = "Ok") =>
              privacy'.reg_recovery = ""]_vars

\* the option held a value that does not parse; after the call, which was
\* asked to plug out the monitors, it is empty
C30_Witness ==
    /\ privacy.ret.op = "restore_reg_connectivity"
    /\ privacy.ret.pre_reg = "unparsable"
    /\ privacy.ret.plug_out
    /\ privacy.reg_recovery = ""

\* C31 as stated: ensure_virtual_display plugs a monitor in only when no
\* virtual display is known; when no physical display is found after the
\* plug-in, the monitors just plugged in are plugged out again, the error is
\* NO_PHYSICAL_DISPLAYS and the added-virtual-display list is as before;
\* the list grows, by the monitors plugged in, only when the call succeeds.
C31_EnsureUnplugsAndReportsNoPhysical ==
    [][PrivacyReturns("ensure_virtual_display") =>
          LET r == privacy'.ret IN
          /\ privacy.virtual_displays # <<>> =>
                 /\ r.res = "Ok" /\ r.plugged_in = {}
                 /\ WithoutRet(privacy') = WithoutRet(privacy)
          /\ (r.plugged_in # {} /\ privacy'.displays = <<>>) =>
                 /\ r.res = "Err" /\ r.err = "NO_PHYSICAL_DISPLAYS"
                 /\ privacy'.plugged = privacy.plugged
                 /\ privacy'.virtual_displays_added =
                        privacy.virtual_displays_added
          /\ privacy'.virtual_displays_added
                 # privacy.virtual_displays_added =>
                 /\ r.res = "Ok"
                 /\ privacy'.virtual_displays_added =
                        privacy.virtual_displays_added
                            \o SortedSeq(r.plugged_in)]_vars

\* C31: as above, except that the plug-out may fail: then the error returned
\* is the error of the plug-out and the monitors just plugged in stay
\* plugged in, still without being recorded in the added-virtual-display
\* list.
C31_EnsureRecordsOnlyOnSuccess ==
    [][PrivacyReturns("ensure_virtual_display") =>
          LET r == privacy'.ret IN
          /\ privacy.virtual_displays # <<>> =>
                 /\ r.res = "Ok" /\ r.plugged_in = {}
                 /\ WithoutRet(privacy') = WithoutRet(privacy)
          /\ (r.plugged_in # {} /\ privacy'.displays = <<>>) =>
                 /\ r.res = "Err"
                 /\ \/ /\ r.err = "NO_PHYSICAL_DISPLAYS"
                       /\ privacy'.plugged = privacy.plugged
                    \/ /\ r.err = "plug_out_monitor_indices"
                       /\ privacy'.plugged =
                              privacy.plugged \cup r.plugged_in
                 /\ privacy'.virtual_displays_added =
                        privacy.virtual_displays_added
          /\ privacy'.virtual_displays_added
                 # privacy.virtual_displays_added =>
                 /\ r.res = "Ok"
                 /\ privacy'.virtual_displays_added =
                        privacy.virtual_displays_added
                            \o SortedSeq(r.plugged_in)]_vars

\* no physical display was found after a plug-in and the plug-out failed:
\* the monitor is still plugged in and not recorded
C31_Witness ==
    /\ privacy.ret.op = "ensure_virtual_display"
    /\ privacy.ret.res = "Err"
    /\ privacy.ret.err = "plug_out_monitor_indices"
    /\ privacy.ret.plugged_in # {}
    /\ privacy.ret.plugged_in \subseteq privacy.plugged
    /\ privacy.displays = <<>>
    /\ privacy.virtual_displays_added = <<>>

\* ------------------------------------------------------- macOS cursor
\* C32: get_cursor returns a cursor id only when the seed it read differs
\* from LATEST_SEED and None when it does not; the first get_cursor that
\* starts after a reset_input_cache returns a cursor id whenever the seed it
\* read is not 0.
C32_CursorIdIffSeedChanged ==
    cursor.ret.op = "get_cursor" =>
        /\ cursor.ret.res = "Some" => cursor.ret.seed # cursor.ret.latest
        /\ cursor.ret.seed = cursor.ret.latest => cursor.ret.res = "None"
        /\ (cursor.ret.after_reset /\ cursor.ret.seed # 0) =>
               cursor.ret.res = "Some"

====
